---- MODULE Spec2Model ----
(***************************************************************************)
(* A model of the qobs build engine: the flag construction of              *)
(* Builder.Build, the in-process scheduler QobsBuilder (topological sort,  *)
(* planning, the errgroup-based job pool, the incremental state store),    *)
(* and the feature fixpoint of Builder.resolveBuildGraph.                  *)
(***************************************************************************)
EXTENDS Integers, Sequences, FiniteSets, TLC

\* ------------------------------------------------------------------ bounds
MaxJobs == 2        \* largest job limit (g.jobs) tried
MaxBuilds == 2      \* number of Build invocations in one behaviour of Spec
MaxEdits == 1       \* number of edits the user makes after the first build
MaxCalls == 2       \* number of ResolveFeatures calls on the same arguments

\* ------------------------------------------------------------- generalities
Range(s) == {s[i] : i \in 1..Len(s)}

\* every order in which a Go `range` over a map with key set S may visit it
Perms(S) ==
  {s \in [1..Cardinality(S) -> S] : \A i, j \in 1..Cardinality(S) : s[i] = s[j] => i = j}

RECURSIVE Flatten(_)
Flatten(ss) == IF ss = <<>> THEN <<>> ELSE Head(ss) \o Flatten(Tail(ss))

SeqMap(Op(_), s) == [i \in 1..Len(s) |-> Op(s[i])]

\* m with key k set to v
Put(m, k, v) == [q \in DOMAIN m \cup {k} |-> IF q = k THEN v ELSE m[q]]

\* ---------------------------------------------------- the packages built
\* One root executable and two libraries; the names are the artifact names
\* outputName gives them, listed in lexicographic order (slices.Sort).
SortedNames == <<"app", "liba", "libb">>
Targets == Range(SortedNames)
Rank(n) == CHOOSE i \in 1..Len(SortedNames) : SortedNames[i] = n

IsLibOf == [t \in Targets |-> t # "app"]
SourcesOf == [t \in Targets |->
  IF t = "app" THEN <<"main.c">> ELSE IF t = "liba" THEN <<"a1.c", "a2.c">> ELSE <<"b.c">>]
AllSources == UNION {Range(SourcesOf[t]) : t \in Targets}
HeaderDirsOf == [t \in Targets |->
  IF t = "liba" THEN {"liba/include"} ELSE IF t = "libb" THEN {"libb/include"} ELSE {}]
DefinesOf == [t \in Targets |-> IF t = "libb" THEN {"X", "Y"} ELSE {}]
LinksOf == [t \in Targets |->
  IF t = "liba" THEN <<"m">> ELSE IF t = "app" THEN <<"m", "z">> ELSE <<>>]

\* the key sets of the packages' Dependencies maps: two siblings, a chain,
\* and two libraries that depend on each other
DepGraphs == {
  [t \in Targets |-> IF t = "app" THEN {"liba", "libb"} ELSE {}],
  [t \in Targets |-> IF t = "app" THEN {"libb"} ELSE IF t = "libb" THEN {"liba"} ELSE {}],
  [t \in Targets |-> IF t = "app" THEN {"liba"} ELSE IF t = "liba" THEN {"libb"} ELSE {"liba"}]}

\* the maps that give each of the first i names one element of choices[name]
RECURSIVE ChoicesOver(_, _)
ChoicesOver(i, choices) ==
  IF i = 0 THEN {<<>>}
  ELSE {Put(m, SortedNames[i], x) : m \in ChoicesOver(i - 1, choices),
                                    x \in choices[SortedNames[i]]}

\* the values of Target.Cflags a manifest edit switches between (feature sse)
CflagChoices == {<<>>, << <<"-m", "sse">> >>}

\* ------------------------------------------ QobsBuilder.topologicalSortTargets
\* slices.Sort of the names in the set S
SortedSeqOf(S) == SelectSeq(SortedNames, LAMBDA n : n \in S)

Count(x, s) == Cardinality({i \in 1..Len(s) : s[i] = x})

Repeat(x, k) == [i \in 1..k |-> x]

\* graph[d] after slices.Sort: the targets that list d as a dependency, once
\* for every time they list it
DependentsOf(d, names, deps) ==
  Flatten([i \in 1..Len(SortedNames) |->
    IF SortedNames[i] \in names
      THEN Repeat(SortedNames[i], Count(d, deps[SortedNames[i]]))
      ELSE <<>>])

\* the relaxation loop over graph[u]: decrement, append to the queue on zero
RECURSIVE Relax(_, _, _)
Relax(vs, inDegree, queue) ==
  IF vs = <<>> THEN [inDegree |-> inDegree, queue |-> queue]
  ELSE LET v == Head(vs)
           d == [inDegree EXCEPT ![v] = @ - 1]
       IN Relax(Tail(vs), d, IF d[v] = 0 THEN Append(queue, v) ELSE queue)

\* the `for len(queue) > 0` loop
RECURSIVE Kahn(_, _, _, _, _)
Kahn(queue, inDegree, sortedOrder, names, deps) ==
  IF queue = <<>> THEN [inDegree |-> inDegree, sortedOrder |-> sortedOrder]
  ELSE LET u == Head(queue)
           r == Relax(DependentsOf(u, names, deps), inDegree, Tail(queue))
       IN Kahn(r.queue, r.inDegree, Append(sortedOrder, u), names, deps)

\* names: the keys of g.targets; deps[n]: target n's dependencies list
topologicalSortTargets(names, deps) ==
  IF \E n \in names : \E i \in 1..Len(deps[n]) : deps[n][i] \notin names
    THEN [err |-> "missing", sortedOrder |-> <<>>, cycleNodes |-> <<>>]
  ELSE
    LET inDegree0 == [n \in names |-> Len(deps[n])]
        queue0 == SortedSeqOf({n \in names : inDegree0[n] = 0})
        k == Kahn(queue0, inDegree0, <<>>, names, deps)
    IN IF Len(k.sortedOrder) # Cardinality(names)
         THEN [err |-> "cycle", sortedOrder |-> <<>>,
               cycleNodes |-> SortedSeqOf({n \in names : k.inDegree[n] > 0})]
         ELSE [err |-> "none", sortedOrder |-> k.sortedOrder, cycleNodes |-> <<>>]

\* =========================================================================
\* The state: the files on disk, the manifests, and one Build invocation
\* =========================================================================
VARIABLES
  srcContent,    \* source path -> content of the file
  objFile,       \* <<target, source>> -> the object file under QobsFiles/
  artifact,      \* target -> the file build/<target>
  stateFile,     \* qobs_build_state.json: target -> record, for the targets it has
  pkgDeps,       \* package -> key set of Config.Dependencies
  pkgSources,    \* package -> Config.Target.Sources, the patterns
  pkgCflags,     \* package -> Config.Target.Cflags
  jobs,          \* g.jobs, the limit handed to runJobs
  pc,            \* where Build/Invoke stands: "idle", "compile", "link"
  targets,       \* g.targets, as AddTarget filled it
  buildState,    \* g.buildState
  hashCache,     \* g.hashCache
  compileJobs,   \* the compile jobs planBuild planned
  linkJobs,      \* the link jobs planBuild planned
  status,        \* status of each job of the running phase (runJobs)
  egErr,         \* the error errgroup recorded first; 0 when none
  result,        \* what the last Build invocation returned
  manifest,      \* package -> its Qobs.toml: [features], [dependencies]
  graph,         \* resolveBuildGraph: packages, finalFeatures, changed, loop position
  rawConfigs,    \* the decoded TOML of the manifests this process loads, in order
  defaultProfiles, \* the package-level variable defaultProfiles
  configs,       \* what the ParseConfig calls made so far returned
  featureArgs,   \* a FeaturesSection, a requested list and a flag for ResolveFeatures
  resolved,      \* what the ResolveFeatures calls made so far returned
  build,         \* Builder.Build up to g.Invoke: packages, loop position, g.targets, error
  merge,         \* mergeStructs: dst and src, what they were before the last call, calls made
  hist           \* history of the behaviour, read by the properties only

vars == <<srcContent, objFile, artifact, stateFile, pkgDeps, pkgSources, pkgCflags, jobs, pc,
          targets, buildState, hashCache, compileJobs, linkJobs, status, egErr,
          result, manifest, graph, rawConfigs, defaultProfiles, configs, featureArgs,
          resolved, build, merge, hist>>

resolveVars == <<manifest, graph>>

loadVars == <<rawConfigs, defaultProfiles, configs, featureArgs, resolved, build, merge>>

fsVars == <<srcContent, objFile, artifact, stateFile>>

NoFile == [kind |-> "absent"]
Nil == [kind |-> "nil"]

\* ---------------------------------------------------------- Builder.Build
\* Builder.makeCflags: -O<level> of the profile, nothing for the empty level
OptLevelOf == [p \in {"release", "debug"} |-> IF p = "release" THEN "3" ELSE ""]
makeCflags(profile) ==
  IF OptLevelOf[profile] = "" THEN <<>> ELSE << <<"-O", OptLevelOf[profile]>> >>

\* the orders one execution of a `range` over each package's map may take
OrdersOver(setOf) == ChoicesOver(Len(SortedNames), [q \in Targets |-> Perms(setOf[q])])

\* collectFiles(pkg, headers, true): the directories of stripmap, in map order
IncludeFlags(dirOrder) == SeqMap(LAMBDA d : <<"-I", d>>, dirOrder)

\* the closure collectLinks: depth first, each name once, map order childOrd
RECURSIVE collectLinks(_, _, _, _)
RECURSIVE collectLinksAll(_, _, _, _)
collectLinks(name, seen, ldflags, childOrd) ==
  IF name \in seen THEN [seen |-> seen, ldflags |-> ldflags]
  ELSE collectLinksAll(childOrd[name], seen \cup {name},
                       ldflags \o SeqMap(LAMBDA l : <<"-l", l>>, LinksOf[name]), childOrd)
collectLinksAll(names, seen, ldflags, childOrd) ==
  IF names = <<>> THEN [seen |-> seen, ldflags |-> ldflags]
  ELSE LET r == collectLinks(Head(names), seen, ldflags, childOrd)
       IN collectLinksAll(Tail(names), r.seen, r.ldflags, childOrd)

\* doublestar.Glob(fsys, pat) in the directory of pkg: "*.c" matches every
\* source file of the package, in lexical order, another pattern the file it names
Glob(pkg, pat) ==
  IF pat = "*.c" THEN SourcesOf[pkg]
  ELSE IF pat \in Range(SourcesOf[pkg]) THEN <<pat>> ELSE <<>>

\* collectFiles(pkg, patterns, false): the matches of each pattern in turn
collectFiles(pkg, patterns) == Flatten(SeqMap(LAMBDA pat : Glob(pkg, pat), patterns))

\* QobsBuilder.AddTarget: the object path is QobsFiles/<name>.dir/<rel>.obj
AddTarget(name, sources, dependencies, isLib, cflags, ldflags) ==
  [name |-> name, isLib |-> isLib,
   sources |-> SeqMap(LAMBDA s : [src |-> s, obj |-> <<name, s>>], sources),
   dependencies |-> dependencies, cflags |-> cflags, ldflags |-> ldflags]

\* one pass of the `for _, pkg := range packages` loop of Build for package p;
\* depOrd, linkOrd, childOrd, hdrOrd, defOrd are the orders the map loops took
BuildUnit(p, profile, depOrd, linkOrd, childOrd, hdrOrd, depHdrOrd, defOrd) ==
  LET cflags == makeCflags(profile) \o pkgCflags[p]
                \o IncludeFlags(hdrOrd[p])
                \o Flatten(SeqMap(LAMBDA d : IncludeFlags(depHdrOrd[d]), depOrd))
                \o SeqMap(LAMBDA d : <<"-D", d>>, defOrd)
      ldflags == collectLinksAll(linkOrd, {}, <<>>, childOrd).ldflags
                 \o SeqMap(LAMBDA l : <<"-l", l>>, LinksOf[p])
  IN AddTarget(p, collectFiles(p, pkgSources[p]), depOrd, IsLibOf[p], cflags, ldflags)

\* every build unit Build may register for p
UnitsOf(p, profile) ==
  LET depOrds == Perms(pkgDeps[p])
      childOrds == OrdersOver(pkgDeps)
      hdrOrds == OrdersOver(HeaderDirsOf)
      defOrds == Perms(DefinesOf[p])
  IN {BuildUnit(p, profile, depOrd, linkOrd, childOrd, hdrOrd, depHdrOrd, defOrd) :
        depOrd \in depOrds, linkOrd \in depOrds, childOrd \in childOrds,
        hdrOrd \in hdrOrds, depHdrOrd \in hdrOrds, defOrd \in defOrds}

\* every content of g.targets Build may hand to Invoke
TargetMaps(profile) ==
  ChoicesOver(Len(SortedNames), [p \in Targets |-> UnitsOf(p, profile)])

\* ------------------------------------------------------------- hashing
\* SHA-256 of a file's content, taken to be free of collisions
Sha256(content) == <<"sha256", content>>

SrcPath(s) == <<"src", s>>
OutPath(t) == <<"build", t>>

\* the file at a path handed to fileHash: a source or build/<target>
FileAt(path) ==
  IF path[1] = "src" THEN [kind |-> "source", content |-> srcContent[path[2]]]
  ELSE artifact[path[2]]

\* QobsBuilder.fileHash: the cached hash if there is one, else hash and cache
fileHash(cache, path) ==
  IF path \in DOMAIN cache THEN [ok |-> TRUE, hash |-> cache[path], cache |-> cache]
  ELSE IF FileAt(path) = NoFile THEN [ok |-> FALSE, hash |-> Sha256(NoFile), cache |-> cache]
  ELSE [ok |-> TRUE, hash |-> Sha256(FileAt(path)),
        cache |-> Put(cache, path, Sha256(FileAt(path)))]

\* ------------------------------------------------- QobsBuilder.planBuild
\* QobsBuilder.isSourceFileDirty (source files always exist in this model)
isSourceFileDirty(src, state, cache) ==
  IF objFile[src.obj] = NoFile THEN [dirty |-> TRUE, cache |-> cache]
  ELSE IF state = Nil THEN [dirty |-> TRUE, cache |-> cache]
  ELSE LET h == fileHash(cache, SrcPath(src.src))
       IN [dirty |-> src.src \notin DOMAIN state.Sources
                     \/ state.Sources[src.src] # h.hash,
           cache |-> h.cache]

\* reason 2 for relink: flags have changed
flagsChanged(target, oldState) ==
  oldState # Nil /\ (oldState.Cflags # target.cflags \/ oldState.Ldflags # target.ldflags)

\* variant: the dependency's artifact is hashed before rebuiltTargets is asked
RECURSIVE depRebuiltHashFirst(_, _, _, _, _)
depRebuiltHashFirst(target, oldState, rebuiltTargets, cache, i) ==
  IF i > Len(target.dependencies) THEN [relink |-> FALSE, cache |-> cache]
  ELSE LET depName == target.dependencies[i]
           h == fileHash(cache, OutPath(depName))
       IN IF depName \in rebuiltTargets THEN [relink |-> TRUE, cache |-> h.cache]
          ELSE IF ~h.ok THEN [relink |-> TRUE, cache |-> h.cache]
          ELSE IF oldState = Nil \/ depName \notin DOMAIN oldState.Dependencies
                  \/ oldState.Dependencies[depName] # h.hash
            THEN [relink |-> TRUE, cache |-> h.cache]
          ELSE depRebuiltHashFirst(target, oldState, rebuiltTargets, h.cache, i + 1)

\* reason 3 for relink: the loop over target.dependencies, from index i
RECURSIVE depRebuilt(_, _, _, _, _)
depRebuilt(target, oldState, rebuiltTargets, cache, i) ==
  IF i > Len(target.dependencies) THEN [relink |-> FALSE, cache |-> cache]
  ELSE LET depName == target.dependencies[i]
           h == fileHash(cache, OutPath(depName))
       IN IF depName \in rebuiltTargets THEN [relink |-> TRUE, cache |-> cache]
          ELSE IF ~h.ok THEN [relink |-> TRUE, cache |-> h.cache]
          ELSE IF oldState = Nil \/ depName \notin DOMAIN oldState.Dependencies
                  \/ oldState.Dependencies[depName] # h.hash
            THEN [relink |-> TRUE, cache |-> h.cache]
          ELSE depRebuilt(target, oldState, rebuiltTargets, h.cache, i + 1)

\* the loop over target.sources, from index i: a compile job per dirty source
RECURSIVE dirtySources(_, _, _, _, _)
dirtyStep(target, oldState, i, found, d) ==
  dirtySources(target, oldState, d.cache, i + 1,
    IF d.dirty
      THEN Append(found, [src |-> target.sources[i].src, obj |-> target.sources[i].obj,
                          cflags |-> target.cflags])
      ELSE found)
dirtySources(target, oldState, cache, i, found) ==
  IF i > Len(target.sources) THEN [jobs |-> found, cache |-> cache]
  ELSE dirtyStep(target, oldState, i, found,
                 isSourceFileDirty(target.sources[i], oldState, cache))

\* QobsBuilder.createLinkJob
createLinkJob(target) ==
  [name |-> target.name, objs |-> SeqMap(LAMBDA s : s.obj, target.sources),
   deps |-> target.dependencies, ldflags |-> target.ldflags, isLib |-> target.isLib]

StateOf(bs, name) == IF name \in DOMAIN bs THEN bs[name] ELSE Nil

\* variant: changed flags are no reason for a relink
needsRelinkFlagsIgnored(target, oldState, dep, srcs) ==
  \/ artifact[target.name] = NoFile
  \/ dep.relink
  \/ srcs.jobs # <<>>

\* the four reasons for a relink, dep and srcs being what the two loops found
needsRelink(target, oldState, dep, srcs) ==
  \/ artifact[target.name] = NoFile
  \/ flagsChanged(target, oldState)
  \/ dep.relink
  \/ srcs.jobs # <<>>

\* the end of one pass of planBuild's loop: the jobs of the target are added
planned(acc, target, relink, srcs) ==
  [rebuiltTargets |-> IF relink THEN acc.rebuiltTargets \cup {target.name}
                      ELSE acc.rebuiltTargets,
   cache |-> srcs.cache,
   compileJobs |-> acc.compileJobs \o srcs.jobs,
   linkJobs |-> IF relink THEN Append(acc.linkJobs, createLinkJob(target))
                ELSE acc.linkJobs]

\* the loop of planBuild over sortedTargetNames, from index i
RECURSIVE planBuild(_, _, _, _, _)
planSources(sortedTargetNames, tm, bs, i, acc, target, oldState, dep, srcs) ==
  planBuild(sortedTargetNames, tm, bs, i + 1,
            planned(acc, target, needsRelink(target, oldState, dep, srcs), srcs))
planDeps(sortedTargetNames, tm, bs, i, acc, target, oldState, dep) ==
  planSources(sortedTargetNames, tm, bs, i, acc, target, oldState, dep,
              dirtySources(target, oldState, dep.cache, 1, <<>>))
planTarget(sortedTargetNames, tm, bs, i, acc, target, oldState) ==
  planDeps(sortedTargetNames, tm, bs, i, acc, target, oldState,
           depRebuilt(target, oldState, acc.rebuiltTargets, acc.cache, 1))
planBuild(sortedTargetNames, tm, bs, i, acc) ==
  IF i > Len(sortedTargetNames) THEN acc
  ELSE planTarget(sortedTargetNames, tm, bs, i, acc, tm[sortedTargetNames[i]],
                  StateOf(bs, sortedTargetNames[i]))

EmptyPlan ==
  [rebuiltTargets |-> {}, cache |-> <<>>, compileJobs |-> <<>>, linkJobs |-> <<>>]

\* --------------------------------------------------- the jobs themselves
\* runCompileJob: cc <cflags> -c <src> -o <obj>; the compiler rejects "broken"
compileOk(job) == srcContent[job.src] # "broken"
objectOf(job) == [kind |-> "obj", content |-> srcContent[job.src], cflags |-> job.cflags]

\* runLinkJob: `ar rcs out objs` for a library (members of an existing archive
\* that are not named stay in it), `cc -o out objs deps ldflags` otherwise
linkOk(job) ==
  /\ \A i \in 1..Len(job.objs) : objFile[job.objs[i]] # NoFile
  /\ job.isLib \/ \A i \in 1..Len(job.deps) : artifact[job.deps[i]] # NoFile
artifactOf(job) ==
  IF job.isLib
    THEN LET old == IF artifact[job.name] = NoFile THEN <<>> ELSE artifact[job.name].members
         IN [kind |-> "lib",
             members |-> [o \in DOMAIN old \cup Range(job.objs) |->
                            IF o \in Range(job.objs) THEN objFile[o] ELSE old[o]]]
    ELSE [kind |-> "exe", objs |-> SeqMap(LAMBDA o : objFile[o], job.objs),
          deps |-> SeqMap(LAMBDA d : artifact[d], job.deps), ldflags |-> job.ldflags]

\* ------------------------------------------- QobsBuilder.updateBuildState
\* hashes of the paths in turn; a path that cannot be hashed is left out
RECURSIVE hashAll(_, _, _)
\* variant: a path that cannot be hashed is recorded with the hash returned
hashStepKeeping(paths, acc, h) ==
  hashAll(Tail(paths), h.cache, Put(acc, Head(paths)[2], h.hash))

hashStep(paths, acc, h) ==
  hashAll(Tail(paths), h.cache, IF h.ok THEN Put(acc, Head(paths)[2], h.hash) ELSE acc)
hashAll(paths, cache, acc) ==
  IF paths = <<>> THEN [hashes |-> acc, cache |-> cache]
  ELSE hashStep(paths, acc, fileHash(cache, Head(paths)))

newState(target, srcs, deps) ==
  [state |-> [Sources |-> srcs.hashes, Dependencies |-> deps.hashes,
              Cflags |-> target.cflags, Ldflags |-> target.ldflags],
   cache |-> deps.cache]
hashDeps(target, srcs) ==
  newState(target, srcs, hashAll(SeqMap(OutPath, target.dependencies), srcs.cache, <<>>))
updateBuildState(target, cache) ==
  hashDeps(target, hashAll(SeqMap(LAMBDA s : SrcPath(s.src), target.sources), cache, <<>>))

\* the loop of executeBuild over linkJobs after both phases succeeded
RECURSIVE updateAll(_, _, _)
updateStep(ljobs, bs, u) ==
  updateAll(Tail(ljobs), Put(bs, Head(ljobs).name, u.state), u.cache)
updateAll(ljobs, bs, cache) ==
  IF ljobs = <<>> THEN [buildState |-> bs, cache |-> cache]
  ELSE updateStep(ljobs, bs, updateBuildState(targets[Head(ljobs).name], cache))

\* ------------------------------- loadBuildState, saveBuildState (JSON)
\* The content of the state file is a JSON object, a function from target
\* names to records, or one of the values below; NotJson is a text with a
\* syntax error, JsonNumber a value where a record is expected.
JsonNull == [json |-> "null"]
JsonNumber == [json |-> "number"]
NotJson == [json |-> "syntax error"]

\* a *BuildState allocated by the decoder and left as it was
ZeroBuildState == [Sources |-> <<>>, Dependencies |-> <<>>, Cflags |-> <<>>, Ldflags |-> <<>>]

\* g.buildState = nil: a read finds no target, a write panics
NilMap == [nil |-> TRUE]

\* one member of the object decoded into a *BuildState
decodeState(v) ==
  IF v = JsonNull THEN Nil ELSE IF v = JsonNumber THEN ZeroBuildState ELSE v

\* json.Decoder.Decode(&g.buildState) on the map NewQobsBuilder made: a syntax
\* error stores nothing, null sets the map to nil and is no error, a member of
\* the wrong type is an error after every member has been stored
loadBuildState(file) ==
  IF file = NotJson THEN [buildState |-> <<>>, err |-> TRUE]
  ELSE IF file = JsonNull THEN [buildState |-> NilMap, err |-> FALSE]
  ELSE [buildState |-> [t \in DOMAIN file |-> decodeState(file[t])],
        err |-> \E t \in DOMAIN file : file[t] = JsonNumber]

\* json.MarshalIndent(g.buildState): a nil *BuildState is written as null
saveBuildState(bs) == [t \in DOMAIN bs |-> IF bs[t] = Nil THEN JsonNull ELSE bs[t]]

\* ---------------------------------------------------------------- runJobs
Running(st) == {i \in 1..Len(st) : st[i] = "running"}
Finished(st) == {i \in 1..Len(st) : st[i] \in {"ok", "failed"}}

\* variant: a pool without a limit
slotFreeUnlimited(st, limit) == TRUE

\* eg.SetLimit(limit): eg.Go blocks while `limit` goroutines are active
slotFree(st, limit) == Cardinality(Running(st)) < limit

\* the `for _, job := range jobs` loop: the job eg.Go is handed next, 0 at the end
nextJob(st) ==
  IF \E i \in 1..Len(st) : st[i] = "pending"
    THEN CHOOSE i \in 1..Len(st) : st[i] = "pending" /\ \A j \in 1..(i - 1) : st[j] # "pending"
    ELSE 0

\* whether eg.Go starts job i now: the group's context is discarded
\* (`eg, _ :=`), so an error recorded earlier stops nothing
mayStart(st, limit, err, i) == i # 0 /\ i = nextJob(st) /\ slotFree(st, limit)

\* variant: returning as soon as every job has been launched
waitReturnsAfterLaunch(st) == nextJob(st) = 0

\* eg.Wait returns once the loop is over and every goroutine has returned
waitReturns(st) == Finished(st) = 1..Len(st)

\* variant: keeping the most recent error
recordErrLast(err, i) == i

\* the error eg.Wait returns: the one recorded first
recordErr(err, i) == IF err = 0 THEN i ELSE err

NewPhase(js) == [i \in 1..Len(js) |-> "pending"]

\* ------------------------------------------- FeaturesSection.ResolveFeatures
\* A feature string is a pair: <<"", f>> for "f" and <<d, f>> for "d/f", the
\* two cases strings.SplitN(feature, "/", 2) tells apart.
Own(f) == <<"", f>>
DepFeature(d, f) == <<d, f>>

\* variant: the feature is appended whether or not the list contains it
appendAlways(depFeatures, depName, featureName) ==
  IF depName \in DOMAIN depFeatures
    THEN Put(depFeatures, depName, Append(depFeatures[depName], featureName))
    ELSE Put(depFeatures, depName, <<featureName>>)

\* depFeatures[depName] = append(depFeatures[depName], featureName), unless
\* the list contains it
appendNew(depFeatures, depName, featureName) ==
  IF depName \in DOMAIN depFeatures
    THEN IF featureName \in Range(depFeatures[depName]) THEN depFeatures
         ELSE Put(depFeatures, depName, Append(depFeatures[depName], featureName))
    ELSE Put(depFeatures, depName, <<featureName>>)

\* variant: a `dep/feature` entry ends the loop (`break` for `continue`)
RECURSIVE resolveQueueBreaking(_, _, _, _)
resolveQueueBreaking(f, queue, ownFeatures, depFeatures) ==
  IF queue = <<>> THEN [ownFeatures |-> ownFeatures, depFeatures |-> depFeatures]
  ELSE IF Head(queue)[1] # ""
    THEN [ownFeatures |-> ownFeatures,
          depFeatures |-> appendNew(depFeatures, Head(queue)[1], Head(queue)[2])]
  ELSE IF Head(queue)[2] \in ownFeatures
    THEN resolveQueueBreaking(f, Tail(queue), ownFeatures, depFeatures)
  ELSE resolveQueueBreaking(f,
         IF Head(queue)[2] \in DOMAIN f THEN Tail(queue) \o f[Head(queue)[2]] ELSE Tail(queue),
         ownFeatures \cup {Head(queue)[2]}, depFeatures)

\* the `for len(queue) > 0` loop
RECURSIVE resolveQueue(_, _, _, _)
resolveQueue(f, queue, ownFeatures, depFeatures) ==
  IF queue = <<>> THEN [ownFeatures |-> ownFeatures, depFeatures |-> depFeatures]
  ELSE IF Head(queue)[1] # ""
    THEN resolveQueue(f, Tail(queue), ownFeatures,
                      appendNew(depFeatures, Head(queue)[1], Head(queue)[2]))
  ELSE IF Head(queue)[2] \in ownFeatures
    THEN resolveQueue(f, Tail(queue), ownFeatures, depFeatures)
  ELSE resolveQueue(f,
         IF Head(queue)[2] \in DOMAIN f THEN Tail(queue) \o f[Head(queue)[2]] ELSE Tail(queue),
         ownFeatures \cup {Head(queue)[2]}, depFeatures)

ResolveFeatures(f, requested, useDefault) ==
  resolveQueue(f,
    IF useDefault /\ "default" \in DOMAIN f THEN requested \o f["default"] ELSE requested,
    {}, <<>>)

\* variant: a resolution that deletes the features it visited from the graph
featuresAfterDeleting(f, ownFeatures) == [k \in DOMAIN f \ ownFeatures |-> f[k]]

\* the feature graph after a call: ResolveFeatures only reads f, and works on
\* a clone of the requested list
featuresAfter(f, ownFeatures) == f

\* ParseConfig of package p's manifest; requestedFeatures is the order in which
\* the range over env.Features yields the enabled features. enabledFeatures is
\* env2.Features, which the rest of the configuration is evaluated with.
ParseConfig(p, requestedFeatures, defaultFeatures) ==
  LET r == ResolveFeatures(manifest[p].features, SeqMap(Own, requestedFeatures), defaultFeatures)
  IN [Name |-> p,
      Features |-> manifest[p].features,
      Dependencies |-> manifest[p].dependencies,
      enabledDepFeatures |-> r.depFeatures,
      enabledFeatures |-> r.ownFeatures]

\* --------------------------------------------- expressions of the manifests
\* The expressions the manifests use as keys and build scripts, evaluated for
\* target_os = "linux".
Exprs == {"target_os == 'linux'", "target_os == 'windows'", "feature('sse')", "target_arch",
          "feature('sse', 'avx')"}

\* expr.Compile(expression, env.exprOptions()...) returns no error; expr.Env(e)
\* makes an identifier that is no field of ConfigEnv a compile error
Compile(expression) == expression \in Exprs

\* expr.Run(program, env) as the type assertion result.(bool) sees it; features
\* is env.Features, read by feature(...)
Run(expression, features) ==
  CASE expression = "target_os == 'linux'" -> "true"
    [] expression = "target_os == 'windows'" -> "false"
    [] expression = "feature('sse')" -> IF "sse" \in features THEN "true" ELSE "false"
    [] expression = "feature('sse', 'avx')" ->
         IF "sse" \in features /\ "avx" \in features THEN "true" ELSE "false"
    [] OTHER -> "not bool"

\* fmt.Sprintf("%v", result) of expr.Run(program, env), for target_arch = "x86_64"
Sprint(expression, features) ==
  IF Run(expression, features) = "not bool" THEN "x86_64" ELSE Run(expression, features)

\* ------------------------------------------------------------ evaluateString
\* the strings of the manifests with a {{...}} match: what exprRegex finds in
\* them, the text before the match, the trimmed expression and the text after
Templates ==
  ("-DSSE={{ feature('sse') }}" :> [pre |-> "-DSSE=", expression |-> "feature('sse')", post |-> ""])
  @@ ("-DSIMD={{feature('sse', 'avx')}}" :>
        [pre |-> "-DSIMD=", expression |-> "feature('sse', 'avx')", post |-> ""])
  @@ ("{{ target_arch }}.c" :> [pre |-> "", expression |-> "target_arch", post |-> ".c"])
  @@ ("make {{ jobs }}" :> [pre |-> "make ", expression |-> "jobs", post |-> ""])

\* evaluateString(s, env): s itself without a match, else the match replaced
\* by the text of the result, or the error of expr.Compile
evaluateString(str, features) ==
  IF str \notin DOMAIN Templates THEN [err |-> "", val |-> str]
  ELSE IF ~Compile(Templates[str].expression)
    THEN [err |-> "failed to compile expression", val |-> ""]
  ELSE [err |-> "",
        val |-> Templates[str].pre \o Sprint(Templates[str].expression, features)
                  \o Templates[str].post]

\* ------------------------------------------------------------- mergeStructs
\* A decoded TOML table is a map from keys to [table, val]: table says that
\* the value is itself a table. Typed sections are records of the Go fields.
Val(v) == [table |-> FALSE, val |-> v]
Table(v) == [table |-> TRUE, val |-> v]

tomlTag == [Name |-> "name", Build |-> "build", Lib |-> "lib", Sources |-> "sources",
            Defines |-> "defines", Cflags |-> "cflags"]

\* reflect.Kind of the fields of PackageSection and TargetSection
FieldKind == [Name |-> "string", Build |-> "string", Lib |-> "bool", Sources |-> "slice",
              Defines |-> "map", Cflags |-> "slice"]

ZeroOfKind == [k \in {"string", "bool", "slice", "map"} |->
                 IF k = "string" THEN "" ELSE IF k = "bool" THEN FALSE ELSE <<>>]

ZeroPackage == [Name |-> "", Build |-> ""]
ZeroTarget == [Lib |-> FALSE, Sources |-> <<>>, Defines |-> <<>>, Cflags |-> <<>>]

\* a variant that treats a slice as a scalar: the source replaces the destination
mergeFieldReplacing(kind, dstField, srcField) ==
  CASE kind = "map" -> [k \in DOMAIN dstField \cup DOMAIN srcField |->
                          IF k \in DOMAIN srcField THEN srcField[k] ELSE dstField[k]]
    [] kind = "bool" -> dstField \/ srcField
    [] OTHER -> IF srcField = ZeroOfKind[kind] THEN dstField ELSE srcField

\* the `switch dstField.Kind()` of mergeStructs
mergeField(kind, dstField, srcField) ==
  CASE kind = "slice" -> dstField \o srcField
    [] kind = "map" -> [k \in DOMAIN dstField \cup DOMAIN srcField |->
                          IF k \in DOMAIN srcField THEN srcField[k] ELSE dstField[k]]
    [] kind = "bool" -> dstField \/ srcField
    [] OTHER -> IF srcField = ZeroOfKind[kind] THEN dstField ELSE srcField

\* mergeStructs on a dst that points to a struct
mergeStructs(dst, src) ==
  [f \in DOMAIN dst |-> mergeField(FieldKind[f], dst[f], src[f])]

\* toml.Unmarshal of a table into dst: a struct takes the keys of its tags and
\* ignores the others, a map that is not nil keeps its entries and takes every key
tomlUnmarshal(kind, fields, dst) ==
  IF kind = "struct"
    THEN [f \in DOMAIN dst |->
            IF tomlTag[f] \in DOMAIN fields THEN fields[tomlTag[f]].val ELSE dst[f]]
    ELSE [k \in DOMAIN dst \cup DOMAIN fields |->
            IF k \in DOMAIN fields THEN fields[k].val ELSE dst[k]]

\* ----------------------------------------------- unmarshalConditionalSection
\* the keys the split loop puts into conditionalFields
conditionalFields(section) ==
  {key \in DOMAIN section : section[key].table /\ Compile(key)}

\* a variant of the loop without the `continue` of an expression that is not true
RECURSIVE mergeConditionalUngated(_, _, _, _, _)
mergeConditionalUngated(kind, section, dst, features, order) ==
  IF order = <<>> THEN [err |-> "", val |-> dst]
  ELSE IF kind # "struct"
    THEN [err |-> "failed to merge conditional section", val |-> dst]
  ELSE mergeConditionalUngated(kind, section,
         mergeStructs(dst, tomlUnmarshal(kind, section[Head(order)].val,
                                         [f \in DOMAIN dst |-> ZeroOfKind[FieldKind[f]]])),
         features, Tail(order))

\* the `for expression, condMap := range conditionalFields` loop, visiting the
\* keys in `order`; mergeStructs refuses a dst that does not point to a struct
RECURSIVE mergeConditional(_, _, _, _, _)
mergeConditional(kind, section, dst, features, order) ==
  IF order = <<>> THEN [err |-> "", val |-> dst]
  ELSE IF Run(Head(order), features) # "true"
    THEN mergeConditional(kind, section, dst, features, Tail(order))
  ELSE IF kind # "struct"
    THEN [err |-> "failed to merge conditional section", val |-> dst]
  ELSE mergeConditional(kind, section,
         mergeStructs(dst, tomlUnmarshal(kind, section[Head(order)].val,
                                         [f \in DOMAIN dst |-> ZeroOfKind[FieldKind[f]]])),
         features, Tail(order))

\* the base is unmarshalled into dst when it has a key, then the loop runs
unmarshalConditionalSection(kind, section, dst, features, order) ==
  mergeConditional(kind, section,
    IF DOMAIN section \ conditionalFields(section) # {}
      THEN tomlUnmarshal(kind,
             [key \in DOMAIN section \ conditionalFields(section) |-> section[key]], dst)
      ELSE dst,
    features, order)

\* --------------------------------------------------------- processExpressions
\* processExpressions walks maps, lists and strings; here the walk is written
\* on the shapes the sections have. The value of a key of section `name`:
processValue(name, key, entry, features) ==
  CASE name = "dependencies" ->
         [entry EXCEPT !.val =
            [Source |-> evaluateString(@.Source, features).val,
             DefaultFeatures |-> @.DefaultFeatures,
             Features |-> SeqMap(LAMBDA str : evaluateString(str, features).val, @.Features)]]
    [] name = "profile" ->
         [entry EXCEPT !.val = [OptLevel |-> evaluateString(@.OptLevel, features).val]]
    [] key \in {"sources", "cflags"} ->
         [entry EXCEPT !.val = SeqMap(LAMBDA str : evaluateString(str, features).val, @)]
    [] key \in {"name", "build"} ->
         [entry EXCEPT !.val = evaluateString(@, features).val]
    [] key = "defines" ->
         [entry EXCEPT !.val = [k \in DOMAIN @ |-> evaluateString(@[k], features).val]]
    [] OTHER -> entry

\* the strings processExpressions finds under a key
stringsUnder(name, key, entry) ==
  CASE name = "dependencies" -> {entry.val.Source} \cup Range(entry.val.Features)
    [] name = "profile" -> {entry.val.OptLevel}
    [] key \in {"sources", "cflags"} -> Range(entry.val)
    [] key \in {"name", "build"} -> {entry.val}
    [] key = "defines" -> {entry.val[k] : k \in DOMAIN entry.val}
    [] OTHER -> {}

\* a section: the values of its keys and of the keys of its sub-sections
processSection(name, section, features) ==
  [key \in DOMAIN section |->
     IF key \in conditionalFields(section)
       THEN Table([k \in DOMAIN section[key].val |->
                     processValue(name, k, section[key].val[k], features)])
       ELSE processValue(name, key, section[key], features)]

stringsOfSection(name, section) ==
  UNION {IF key \in conditionalFields(section)
           THEN UNION {stringsUnder(name, k, section[key].val[k]) : k \in DOMAIN section[key].val}
           ELSE stringsUnder(name, key, section[key]) : key \in DOMAIN section}

\* processExpressions(rawConfig, env2): the first error, or the manifest with
\* every string evaluated; [features] was unmarshalled before and is not read again
processExpressions(raw, features) ==
  IF \E name \in {"package", "dependencies", "profile", "target"} :
       \E str \in stringsOfSection(name, raw[name]) : evaluateString(str, features).err # ""
    THEN [err |-> "error processing expressions in config", val |-> raw]
    ELSE [err |-> "",
          val |-> [name \in DOMAIN raw |->
                     IF name = "features" THEN raw[name]
                     ELSE processSection(name, raw[name], features)]]

\* --------------------------------------------------- ParseConfig, the sections
\* the first error of the three conditional sections
firstErr(deps, prof, tgt) ==
  IF deps.err # "" THEN deps.err ELSE IF prof.err # "" THEN prof.err ELSE tgt.err

\* the Config and what is left in the table cfg.Profile points to
sectionsOf(pkg, deps, prof, tgt, r, profiles) ==
  [cfg |-> [err |-> firstErr(deps, prof, tgt),
            Package |-> pkg,
            Dependencies |-> deps.val,
            Target |-> tgt.val,
            enabledFeatures |-> r.ownFeatures,
            enabledDepFeatures |-> r.depFeatures],
   profiles |-> IF deps.err # "" THEN profiles ELSE prof.val]

\* ParseConfig of the decoded manifest raw; cfg.Profile = defaultProfiles puts
\* the package-level map itself under the Config, and the [profile] section is
\* unmarshalled into it. orders gives the visiting order of each section's
\* conditionalFields.
parseSections(raw, r, orders, profiles) ==
  sectionsOf(
    tomlUnmarshal("struct", raw.package, ZeroPackage),
    unmarshalConditionalSection("map", raw.dependencies, <<>>, r.ownFeatures, orders.dependencies),
    unmarshalConditionalSection("map", raw.profile, profiles, r.ownFeatures, orders.profile),
    unmarshalConditionalSection("struct", raw.target, ZeroTarget, r.ownFeatures, orders.target),
    r, profiles)

\* ParseConfig returns the error of processExpressions before it reads a section
processedSections(processed, r, orders, profiles) ==
  IF processed.err # ""
    THEN [cfg |-> [err |-> processed.err, Package |-> ZeroPackage, Dependencies |-> <<>>,
                   Target |-> ZeroTarget, enabledFeatures |-> r.ownFeatures,
                   enabledDepFeatures |-> r.depFeatures],
          profiles |-> profiles]
    ELSE parseSections(processed.val, r, orders, profiles)

\* a variant whose env2 keeps env.Features, the requested features
ParseRawRequested(raw, requestedFeatures, defaultFeatures, orders, profiles) ==
  [processedSections(
     processExpressions(raw, Range(requestedFeatures)),
     [ResolveFeatures(raw.features, SeqMap(Own, requestedFeatures), defaultFeatures)
        EXCEPT !.ownFeatures = Range(requestedFeatures)],
     orders, profiles)
   EXCEPT !.cfg.enabledFeatures =
     ResolveFeatures(raw.features, SeqMap(Own, requestedFeatures), defaultFeatures).ownFeatures]

\* env2.Features = enabledFeatures; the strings, then the sections
ParseRaw(raw, requestedFeatures, defaultFeatures, orders, profiles) ==
  processedSections(
    processExpressions(raw,
      ResolveFeatures(raw.features, SeqMap(Own, requestedFeatures), defaultFeatures).ownFeatures),
    ResolveFeatures(raw.features, SeqMap(Own, requestedFeatures), defaultFeatures),
    orders, profiles)

\* the orders the three range loops of one load may take
LoadOrders(raw) ==
  [dependencies : Perms(conditionalFields(raw.dependencies)),
   profile : Perms(conditionalFields(raw.profile)),
   target : Perms(conditionalFields(raw.target))]

\* the table defaultProfiles is initialised with
DefaultProfileTable == [p \in DOMAIN OptLevelOf |-> [OptLevel |-> OptLevelOf[p]]]

\* no error returned by Build
NoErr == [kind |-> "", pkg |-> "", dep |-> ""]
\* Build not called
NoBuild == [phase |-> "none", remote |-> <<>>, declared |-> <<>>, depsDir |-> <<>>,
            envFeatures |-> {}, queue |-> <<>>, depSpecs |-> <<>>, packages |-> <<>>,
            todo |-> {}, targets |-> <<>>, err |-> NoErr,
            hist |-> [found |-> <<>>, seen |-> <<>>, fetched |-> <<>>, loaded |-> <<>>,
                      failed |-> {}, runs |-> 0]]

\* mergeStructs not called
NoMerge == [dst |-> <<>>, src |-> <<>>, given |-> <<>>, calls |-> 0]

NothingLoaded ==
  /\ rawConfigs = <<>>
  /\ defaultProfiles = DefaultProfileTable
  /\ configs = <<>>
  /\ featureArgs = [f |-> <<>>, requested |-> <<>>, useDefault |-> FALSE, given |-> <<>>]
  /\ resolved = <<>>
  /\ build = NoBuild
  /\ merge = NoMerge

\* ------------------------------------------------ Builder.resolveBuildGraph
RootName == "app"

\* pass 1: every dependency reached from the root, parsed with no feature and
\* without default features (the order of the queue does not change the map)
RECURSIVE pass1(_, _)
pass1(queue, packages) ==
  IF queue = <<>> THEN packages
  ELSE IF Head(queue) \in DOMAIN packages THEN pass1(Tail(queue), packages)
  ELSE pass1(Tail(queue) \o SortedSeqOf(DOMAIN manifest[Head(queue)].dependencies),
             Put(packages, Head(queue), ParseConfig(Head(queue), <<>>, FALSE)))

\* the packages whose Config.Dependencies has the key pkgName
ParentsOf(packages, pkgName) ==
  {q \in DOMAIN packages : pkgName \in DOMAIN packages[q].Dependencies}

\* variant: only dep.Features of the parent's entry
requestedBySpec(config, pkgName) == Range(config.Dependencies[pkgName].Features)

\* the features one parent asks of pkgName: dep.Features and the parent's
\* enabledDepFeatures[pkgName]
requestedBy(config, pkgName) ==
  Range(config.Dependencies[pkgName].Features)
    \cup (IF pkgName \in DOMAIN config.enabledDepFeatures
            THEN Range(config.enabledDepFeatures[pkgName]) ELSE {})

requestedFeaturesOf(packages, pkgName) ==
  UNION {requestedBy(packages[q], pkgName) : q \in ParentsOf(packages, pkgName)}

useDefaultFeaturesOf(packages, pkgName) ==
  \E q \in ParentsOf(packages, pkgName) : packages[q].Dependencies[pkgName].DefaultFeatures

\* variant: a lookup that never finds what pass 2 recorded
finalOfUnrecorded(finalFeatures, pkgName) == {}

\* finalFeatures[pkgName] as maps.Equal sees it: a missing key reads as the nil
\* map, which maps.Equal finds equal to an empty map
finalOf(finalFeatures, pkgName) ==
  IF pkgName \in DOMAIN finalFeatures THEN finalFeatures[pkgName] ELSE {}

NoManifest == [p \in Targets |-> [features |-> <<>>, dependencies |-> <<>>]]
NewGraph == [phase |-> "new", packages |-> <<>>, finalFeatures |-> <<>>,
             changed |-> FALSE, todo |-> {}, loads |-> <<>>]

\* --------------------------------------- Builder.Build, up to g.Invoke
\* A dependency string is a pair: <<"git:", url>> for "git:<url>" and
\* <<"", path>> for a filesystem path (strings.HasPrefix).
\* What fetchDependency leaves at toWhere, found in state `at`: a clone puts
\* the package there, a path is returned and nothing is written
fetchDependency(dep, at) == IF dep[1] = "git:" THEN "package" ELSE at

\* depPath after `os.Stat`, MkdirAll and fetchDependency
depPathAfter(dep, at) ==
  IF at = "absent" THEN fetchDependency(dep, "empty") ELSE at

\* variant: a later spec replaces the one recorded
recordSpecLast(depSpecs, name, dep) == Put(depSpecs, name, dep)

\* `if _, ok := depSpecs[name]; !ok { depSpecs[name] = dep }`
recordSpec(depSpecs, name, dep) ==
  IF name \in DOMAIN depSpecs THEN depSpecs ELSE Put(depSpecs, name, dep)

\* the loop `for name, dep := range depConfig.Dependencies` on depSpecs,
\* visiting the names in `order`
RECURSIVE recordSpecs(_, _, _)
recordSpecs(depSpecs, dependencies, order) ==
  IF order = <<>> THEN depSpecs
  ELSE recordSpecs(recordSpec(depSpecs, Head(order), dependencies[Head(order)]),
                   dependencies, Tail(order))

\* the <<name, spec>> pairs a range loop over `dependencies` goes through
specsInOrder(dependencies, order) ==
  [i \in 1..Len(order) |-> <<order[i], dependencies[order[i]]>>]

\* variant: every dependency counts as a library
notLibraryNever(config) == FALSE

\* `!dep.Config.Target.HeaderOnly` and `!dep.Config.Target.Lib`
notLibrary(config) == ~config.HeaderOnly /\ ~config.Lib

\* Package.outputName, on linux
outputName(config) ==
  [prefix |-> IF config.Lib THEN "lib" ELSE "", name |-> config.Name,
   ext |-> IF config.Lib THEN ".a" ELSE ""]

\* Config.RunBuildScript(env) returns nil
scriptPasses(config, features) ==
  config.Build = "" \/ (Compile(config.Build) /\ Run(config.Build, features) = "true")

\* =========================================================================
\* Spec: builds of the three packages, with edits in between
\* =========================================================================
Contents == {"broken", "v1", "v2"}

NoResult == [kind |-> "none", err |-> 0, nodes |-> <<>>]

\* the state before the first invocation that the specifications share
FreshBuilder(limit) ==
  /\ objFile = [o \in {<<t, s>> : t \in Targets, s \in AllSources} |-> NoFile]
  /\ artifact = [t \in Targets |-> NoFile]
  /\ stateFile = <<>>
  /\ pkgSources = [t \in Targets |-> <<"*.c">>]
  /\ pkgCflags = [t \in Targets |-> IF t = "liba" THEN << <<"-m", "sse">> >> ELSE <<>>]
  /\ jobs \in 1..MaxJobs
  /\ pc = "idle"
  /\ targets = <<>>
  /\ buildState = <<>>
  /\ hashCache = <<>>
  /\ compileJobs = <<>>
  /\ linkJobs = <<>>
  /\ status = <<>>
  /\ egErr = 0
  /\ result = NoResult
  /\ hist = [builds |-> 0, limit |-> limit, edits |-> 0, compileFails |-> <<>>, linkFails |-> <<>>,
             compiled |-> <<>>, linkEntered |-> FALSE, lastOk |-> FALSE,
             okSrc |-> srcContent, okCflags |-> pkgCflags,
             base |-> [valid |-> FALSE, changed |-> {}, cflagsSame |-> TRUE],
             stateBefore |-> <<>>]

\* no dependency resolution has run
Unresolved == manifest = NoManifest /\ graph = NewGraph

Init ==
  /\ srcContent = [s \in AllSources |-> "v1"]
  /\ pkgDeps \in DepGraphs
  /\ FreshBuilder(MaxBuilds)
  /\ Unresolved
  /\ NothingLoaded

\* between two builds the user edits a source file
EditSource(s, c) ==
  /\ pc = "idle" /\ hist.edits < MaxEdits /\ 0 < hist.builds /\ hist.builds < hist.limit
  /\ c # srcContent[s]
  /\ srcContent' = [srcContent EXCEPT ![s] = c]
  /\ hist' = [hist EXCEPT !.edits = @ + 1]
  /\ UNCHANGED <<objFile, artifact, stateFile, pkgDeps, pkgSources, pkgCflags, jobs, resolveVars, loadVars, pc, targets,
                 buildState, hashCache, compileJobs, linkJobs, status, egErr, result>>

\* between two builds the user edits a manifest: Target.Cflags of t changes
EditCflags(t, f) ==
  /\ pc = "idle" /\ hist.edits < MaxEdits /\ 0 < hist.builds /\ hist.builds < hist.limit
  /\ f # pkgCflags[t]
  /\ pkgCflags' = [pkgCflags EXCEPT ![t] = f]
  /\ hist' = [hist EXCEPT !.edits = @ + 1]
  /\ UNCHANGED <<srcContent, objFile, artifact, stateFile, pkgDeps, pkgSources, jobs, resolveVars, loadVars, pc,
                 targets,
                 buildState, hashCache, compileJobs, linkJobs, status, egErr, result>>

\* what Build and the head of Invoke compute from the registered targets tm:
\* loadBuildState, topologicalSortTargets, planBuild
Sorted(tm) == topologicalSortTargets(Targets, [t \in Targets |-> tm[t].dependencies])
Plan(tm) ==
  planBuild(Sorted(tm).sortedOrder, tm, loadBuildState(stateFile).buildState, 1, EmptyPlan)

HistAtInvoke ==
  [hist EXCEPT !.builds = @ + 1, !.compileFails = <<>>, !.linkFails = <<>>,
     !.compiled = <<>>, !.linkEntered = FALSE,
     !.base = [valid |-> hist.lastOk,
               changed |-> {s \in AllSources : srcContent[s] # hist.okSrc[s]},
               cflagsSame |-> pkgCflags = hist.okCflags],
     !.stateBefore = stateFile]

Returned(h, ok) ==
  [h EXCEPT !.lastOk = ok,
            !.okSrc = IF ok THEN srcContent ELSE @,
            !.okCflags = IF ok THEN pkgCflags ELSE @]

\* Build registers the targets; Invoke finds a dependency cycle and returns
InvokeCycle ==
  /\ pc = "idle" /\ hist.builds < hist.limit
  /\ \E tm \in TargetMaps("release") :
       LET ts == Sorted(tm)
       IN /\ ts.err # "none"
          /\ targets' = tm
          /\ result' = [kind |-> ts.err, err |-> 0, nodes |-> ts.cycleNodes]
  /\ buildState' = loadBuildState(stateFile).buildState /\ hashCache' = <<>>
  /\ compileJobs' = <<>> /\ linkJobs' = <<>> /\ status' = <<>> /\ egErr' = 0
  /\ hist' = Returned(HistAtInvoke, FALSE)
  /\ UNCHANGED <<fsVars, pkgDeps, pkgSources, pkgCflags, jobs, resolveVars, loadVars, pc>>

\* Invoke plans no job: "qobs: no work to do.", nothing is saved
InvokeNoWork ==
  /\ pc = "idle" /\ hist.builds < hist.limit
  /\ \E tm \in TargetMaps("release") :
       LET plan == Plan(tm)
       IN /\ Sorted(tm).err = "none"
          /\ plan.compileJobs = <<>> /\ plan.linkJobs = <<>>
          /\ targets' = tm
          /\ hashCache' = plan.cache
  /\ buildState' = loadBuildState(stateFile).buildState
  /\ compileJobs' = <<>> /\ linkJobs' = <<>> /\ status' = <<>> /\ egErr' = 0
  /\ result' = [kind |-> "nowork", err |-> 0, nodes |-> <<>>]
  /\ hist' = Returned(HistAtInvoke, TRUE)
  /\ UNCHANGED <<fsVars, pkgDeps, pkgSources, pkgCflags, jobs, resolveVars, loadVars, pc>>

\* Invoke plans jobs and executeBuild enters runJobs for the compile jobs
InvokePlan ==
  /\ pc = "idle" /\ hist.builds < hist.limit
  /\ \E tm \in TargetMaps("release") :
       LET plan == Plan(tm)
       IN /\ Sorted(tm).err = "none"
          /\ ~(plan.compileJobs = <<>> /\ plan.linkJobs = <<>>)
          /\ targets' = tm
          /\ hashCache' = plan.cache
          /\ compileJobs' = plan.compileJobs
          /\ linkJobs' = plan.linkJobs
          /\ status' = NewPhase(plan.compileJobs)
  /\ buildState' = loadBuildState(stateFile).buildState
  /\ egErr' = 0
  /\ result' = NoResult
  /\ pc' = "compile"
  /\ hist' = HistAtInvoke
  /\ UNCHANGED <<fsVars, pkgDeps, pkgSources, pkgCflags, jobs, resolveVars, loadVars>>

schedFrame == <<stateFile, pkgDeps, pkgSources, pkgCflags, jobs, resolveVars, loadVars, targets, buildState, hashCache,
                compileJobs, linkJobs, srcContent>>

\* eg.Go starts the next job of the running phase
Go ==
  /\ pc \in {"compile", "link"}
  /\ mayStart(status, jobs, egErr, nextJob(status))
  /\ status' = [status EXCEPT ![nextJob(status)] = "running"]
  /\ UNCHANGED <<schedFrame, objFile, artifact, pc, egErr, result, hist>>

\* a compile job returns nil: the object file is written
CompileJobOk(i) ==
  /\ pc = "compile" /\ status[i] = "running"
  /\ compileOk(compileJobs[i])
  /\ objFile' = [objFile EXCEPT ![compileJobs[i].obj] = objectOf(compileJobs[i])]
  /\ status' = [status EXCEPT ![i] = "ok"]
  /\ UNCHANGED <<schedFrame, artifact, pc, egErr, result, hist>>

\* a compile job returns an error
CompileJobFail(i) ==
  /\ pc = "compile" /\ status[i] = "running"
  /\ ~compileOk(compileJobs[i])
  /\ status' = [status EXCEPT ![i] = "failed"]
  /\ egErr' = recordErr(egErr, i)
  /\ hist' = [hist EXCEPT !.compileFails = Append(@, i)]
  /\ UNCHANGED <<schedFrame, objFile, artifact, pc, result>>

\* a link job returns nil: the artifact is written
LinkJobOk(i) ==
  /\ pc = "link" /\ status[i] = "running"
  /\ linkOk(linkJobs[i])
  /\ artifact' = [artifact EXCEPT ![linkJobs[i].name] = artifactOf(linkJobs[i])]
  /\ status' = [status EXCEPT ![i] = "ok"]
  /\ UNCHANGED <<schedFrame, objFile, pc, egErr, result, hist>>

\* a link job returns an error
LinkJobFail(i) ==
  /\ pc = "link" /\ status[i] = "running"
  /\ ~linkOk(linkJobs[i])
  /\ status' = [status EXCEPT ![i] = "failed"]
  /\ egErr' = recordErr(egErr, i)
  /\ hist' = [hist EXCEPT !.linkFails = Append(@, i)]
  /\ UNCHANGED <<schedFrame, objFile, artifact, pc, result>>

\* executeBuild: runJobs(compileJobs) returned an error, Invoke returns it
CompileFailed ==
  /\ pc = "compile" /\ waitReturns(status) /\ egErr # 0
  /\ pc' = "idle"
  /\ result' = [kind |-> "compilation failed", err |-> egErr, nodes |-> <<>>]
  /\ hist' = Returned([hist EXCEPT !.compiled = status], FALSE)
  /\ UNCHANGED <<schedFrame, objFile, artifact, status, egErr>>

\* executeBuild: runJobs(compileJobs) returned nil, runJobs(linkJobs) is entered
CompileDone ==
  /\ pc = "compile" /\ waitReturns(status) /\ egErr = 0
  /\ pc' = "link"
  /\ status' = NewPhase(linkJobs)
  /\ hist' = [hist EXCEPT !.compiled = status, !.linkEntered = TRUE]
  /\ UNCHANGED <<schedFrame, objFile, artifact, egErr, result>>

\* variant: the records of the linked targets are rewritten and saved although
\* runJobs(linkJobs) returned an error
LinkFailedSaving ==
  /\ pc = "link" /\ waitReturns(status) /\ egErr # 0
  /\ LET u == IF buildState = NilMap
                THEN [buildState |-> buildState, cache |-> hashCache]
                ELSE updateAll(linkJobs, buildState, hashCache)
     IN /\ buildState' = u.buildState
        /\ hashCache' = u.cache
        /\ stateFile' = IF buildState = NilMap THEN stateFile ELSE saveBuildState(u.buildState)
  /\ pc' = "idle"
  /\ result' = [kind |-> "linking failed", err |-> egErr, nodes |-> <<>>]
  /\ hist' = Returned(hist, FALSE)
  /\ UNCHANGED <<srcContent, objFile, artifact, pkgDeps, pkgSources, pkgCflags, jobs, resolveVars,
                 loadVars, targets, compileJobs, linkJobs, status, egErr>>

\* executeBuild: runJobs(linkJobs) returned an error, Invoke returns it
LinkFailed ==
  /\ pc = "link" /\ waitReturns(status) /\ egErr # 0
  /\ pc' = "idle"
  /\ result' = [kind |-> "linking failed", err |-> egErr, nodes |-> <<>>]
  /\ hist' = Returned(hist, FALSE)
  /\ UNCHANGED <<schedFrame, objFile, artifact, status, egErr>>

\* executeBuild: both phases succeeded, the record of every linked target is
\* rewritten; Invoke saves the state and returns nil
LinkDone ==
  /\ pc = "link" /\ waitReturns(status) /\ egErr = 0
  /\ buildState # NilMap
  /\ LET u == updateAll(linkJobs, buildState, hashCache)
     IN /\ buildState' = u.buildState
        /\ hashCache' = u.cache
        /\ stateFile' = saveBuildState(u.buildState)
  /\ pc' = "idle"
  /\ result' = [kind |-> "ok", err |-> 0, nodes |-> <<>>]
  /\ hist' = Returned(hist, TRUE)
  /\ UNCHANGED <<srcContent, objFile, artifact, pkgDeps, pkgSources, pkgCflags, jobs, resolveVars, loadVars, targets,
                 compileJobs, linkJobs, status, egErr>>

Next ==
  \/ \E s \in AllSources, c \in Contents : EditSource(s, c)
  \/ \E f \in CflagChoices : EditCflags("liba", f)
  \/ InvokeCycle
  \/ InvokeNoWork
  \/ InvokePlan
  \/ Go
  \/ \E i \in 1..Len(status) : CompileJobOk(i)
  \/ \E i \in 1..Len(status) : CompileJobFail(i)
  \/ \E i \in 1..Len(status) : LinkJobOk(i)
  \/ \E i \in 1..Len(status) : LinkJobFail(i)
  \/ CompileFailed
  \/ CompileDone
  \/ LinkFailed
  \/ LinkDone

Spec == Init /\ [][Next]_vars

\* =========================================================================
\* SpecRebuild: the builds of Spec with the largest job limit only
\* =========================================================================
InitRebuild == Init /\ jobs = MaxJobs

SpecRebuild == InitRebuild /\ [][Next]_vars

\* =========================================================================
\* SpecSources: the builds of Spec, with a source taken off a target's list
\* =========================================================================
\* between two builds the user edits a manifest: [target] sources of t names
\* one file where it named every file
RemoveSource(t, patterns) ==
  /\ pc = "idle" /\ hist.edits < MaxEdits /\ 0 < hist.builds /\ hist.builds < hist.limit
  /\ pkgSources[t] = <<"*.c">> /\ patterns # pkgSources[t]
  /\ pkgSources' = [pkgSources EXCEPT ![t] = patterns]
  /\ hist' = [hist EXCEPT !.edits = @ + 1]
  /\ UNCHANGED <<srcContent, objFile, artifact, stateFile, pkgDeps, pkgCflags, jobs, resolveVars,
                 loadVars, pc, targets, buildState, hashCache, compileJobs, linkJobs, status,
                 egErr, result>>

NextSources == Next \/ RemoveSource("liba", <<"a2.c">>)

SpecSources == Init /\ [][NextSources]_vars

\* =========================================================================
\* SpecState: the builds of Spec, with a state file damaged between two builds
\* =========================================================================
\* the file is a JSON object
IsObject(file) == "json" \notin DOMAIN file

\* what a damaged state file may hold in place of file
Corruptions(file) ==
  {NotJson, JsonNull}
    \cup (IF IsObject(file)
            THEN {[file EXCEPT ![t] = v] : t \in DOMAIN file, v \in {JsonNumber, JsonNull}}
            ELSE {})

\* between two builds the state file is overwritten or damaged
CorruptState(file) ==
  /\ pc = "idle" /\ hist.edits < MaxEdits /\ 0 < hist.builds /\ hist.builds < hist.limit
  /\ file \in Corruptions(stateFile)
  /\ file # stateFile
  /\ stateFile' = file
  /\ hist' = [hist EXCEPT !.edits = @ + 1]
  /\ UNCHANGED <<srcContent, objFile, artifact, pkgDeps, pkgSources, pkgCflags, jobs, resolveVars, loadVars,
                 pc, targets, buildState, hashCache, compileJobs, linkJobs, status, egErr,
                 result>>

\* executeBuild: both phases succeeded and updateBuildState assigns to an entry
\* of the nil map: the process panics, nothing is saved
LinkDonePanic ==
  /\ pc = "link" /\ waitReturns(status) /\ egErr = 0
  /\ buildState = NilMap
  /\ linkJobs # <<>>
  /\ pc' = "idle"
  /\ result' = [kind |-> "panic", err |-> 0, nodes |-> <<>>]
  /\ hist' = Returned(hist, FALSE)
  /\ UNCHANGED <<schedFrame, objFile, artifact, status, egErr>>

NextState ==
  \/ Next
  \/ \E file \in Corruptions(stateFile) : CorruptState(file)
  \/ LinkDonePanic

SpecState == Init /\ [][NextState]_vars

\* =========================================================================
\* SpecPlan: planBuild and updateBuildState on build directories and state
\* files of any shape
\* =========================================================================
\* the [target] sources of liba: one pattern, two that overlap, one file only
SourcePatterns == {<<"*.c">>, <<"*.c", "a1.c">>, <<"a2.c">>}

\* the dependency graphs without a cycle
AcyclicDepGraphs == {g \in DepGraphs : g["libb"] # {"liba"} \/ g["liba"] # {"libb"}}

\* files an earlier build left in the build directory
BuiltObject(o) == [kind |-> "obj", content |-> "v1", cflags |-> <<>>]
BuiltArtifact(t) == [kind |-> "built", name |-> t]
MissingObjects == {{}, {<<"liba", "a1.c">>}, {<<"app", "main.c">>}}

OtherHash == Sha256([kind |-> "other"])

\* the record updateBuildState writes for unit u now, and records that differ
\* from it in one place; Nil stands for no record
GoodRecord(u) == updateBuildState(u, <<>>).state
RecordVariants(u) ==
  LET g == GoodRecord(u)
      s == u.sources[1].src
      restS == [k \in DOMAIN g.Sources \ {s} |-> g.Sources[k]]
      depVariants ==
        IF u.dependencies = <<>> THEN {}
        ELSE LET d == u.dependencies[1]
             IN {[g EXCEPT !.Dependencies = Put(@, d, OtherHash)],
                 [g EXCEPT !.Dependencies = [k \in DOMAIN @ \ {d} |-> @[k]]]}
  IN {Nil, g,
      [g EXCEPT !.Sources = Put(restS, s, OtherHash)],
      [g EXCEPT !.Sources = restS],
      [g EXCEPT !.Cflags = Append(@, <<"-g">>)],
      [g EXCEPT !.Ldflags = Append(@, <<"-l", "z">>)]} \cup depVariants

\* the unit of each package a first Build registered
FirstUnits == [t \in Targets |-> CHOOSE u \in UnitsOf(t, "release") : TRUE]

\* state files: every record as written, or one record differing, or no record
StateFiles(units) ==
  {<<>>} \cup
  UNION {{[t \in {x \in Targets : x # dev \/ v # Nil} |->
             IF t = dev THEN v ELSE GoodRecord(units[t])] : v \in RecordVariants(units[dev])} :
           dev \in Targets}

InitPlan ==
  /\ srcContent = [s \in AllSources |-> "v1"]
  /\ pkgDeps \in AcyclicDepGraphs
  /\ \E patterns \in SourcePatterns :
       pkgSources = [t \in Targets |-> IF t = "liba" THEN patterns ELSE <<"*.c">>]
  /\ pkgCflags = [t \in Targets |-> IF t = "liba" THEN << <<"-m", "sse">> >> ELSE <<>>]
  /\ \E missing \in MissingObjects :
       objFile = [o \in {<<t, s>> : t \in Targets, s \in AllSources} |->
                    IF o[2] \in Range(SourcesOf[o[1]]) /\ o \notin missing
                      THEN BuiltObject(o) ELSE NoFile]
  /\ \E missing \in SUBSET Targets :
       artifact = [t \in Targets |-> IF t \in missing THEN NoFile ELSE BuiltArtifact(t)]
  /\ stateFile \in StateFiles(FirstUnits)
  /\ jobs = 1
  /\ pc = "idle"
  /\ targets = <<>>
  /\ buildState = <<>>
  /\ hashCache = <<>>
  /\ compileJobs = <<>>
  /\ linkJobs = <<>>
  /\ status = <<>>
  /\ egErr = 0
  /\ result = NoResult
  /\ hist = [updated |-> {}, missing |-> {}]
  /\ Unresolved
  /\ NothingLoaded

planFrame == <<pkgDeps, pkgSources, pkgCflags, jobs, resolveVars, loadVars, status, egErr, result>>

\* updateBuildState(target) for the unit of t, and the state saved
UpdateRecord(t) ==
  /\ pc = "idle" /\ hist.updated = {}
  /\ IsObject(stateFile)
  /\ \E u \in UnitsOf(t, "release") :
       /\ stateFile' = saveBuildState(Put(loadBuildState(stateFile).buildState, t,
                                          updateBuildState(u, <<>>).state))
       /\ hist' = [updated |-> {t},
                   missing |-> {d \in Range(u.dependencies) : artifact[d] = NoFile}]
  /\ UNCHANGED <<srcContent, objFile, artifact, planFrame, pc, targets, buildState, hashCache,
                 compileJobs, linkJobs>>

\* between two builds a missing artifact is put back
RestoreArtifact(t) ==
  /\ pc = "idle" /\ artifact[t] = NoFile /\ t \in hist.missing
  /\ artifact' = [artifact EXCEPT ![t] = BuiltArtifact(t)]
  /\ UNCHANGED <<srcContent, objFile, stateFile, planFrame, pc, targets, buildState, hashCache,
                 compileJobs, linkJobs, hist>>

\* Build registers the targets, Invoke loads the state and plans
PlanOnce ==
  /\ pc = "idle"
  /\ \E tm \in TargetMaps("release") :
       LET plan == Plan(tm)
       IN /\ targets' = tm
          /\ hashCache' = plan.cache
          /\ compileJobs' = plan.compileJobs
          /\ linkJobs' = plan.linkJobs
  /\ buildState' = loadBuildState(stateFile).buildState
  /\ pc' = "planned"
  /\ UNCHANGED <<fsVars, planFrame, hist>>

NextPlan ==
  \/ \E t \in Targets : UpdateRecord(t)
  \/ \E t \in Targets : RestoreArtifact(t)
  \/ PlanOnce

SpecPlan == InitPlan /\ [][NextPlan]_vars

\* =========================================================================
\* SpecSched: one build of sources of any content, for the job pool
\* =========================================================================
InitSched ==
  /\ srcContent \in [AllSources -> Contents]
  /\ pkgDeps \in DepGraphs
  /\ FreshBuilder(1)
  /\ Unresolved
  /\ NothingLoaded

NextSched ==
  \/ InvokeCycle
  \/ InvokePlan
  \/ Go
  \/ \E i \in 1..Len(status) : CompileJobOk(i)
  \/ \E i \in 1..Len(status) : CompileJobFail(i)
  \/ \E i \in 1..Len(status) : LinkJobOk(i)
  \/ \E i \in 1..Len(status) : LinkJobFail(i)
  \/ CompileFailed
  \/ CompileDone
  \/ LinkFailed
  \/ LinkDone

SpecSched == InitSched /\ [][NextSched]_vars

\* =========================================================================
\* SpecTopo: topologicalSortTargets on every graph over the three targets
\* =========================================================================
InitTopo ==
  /\ srcContent = [s \in AllSources |-> "v1"]
  /\ pkgDeps \in [Targets -> SUBSET Targets]
  /\ FreshBuilder(1)
  /\ Unresolved
  /\ NothingLoaded

\* Invoke's call of topologicalSortTargets on the registered targets
SortTargets ==
  /\ pc = "idle"
  /\ LET ts == topologicalSortTargets(Targets, [t \in Targets |-> SortedSeqOf(pkgDeps[t])])
     IN result' = [kind |-> ts.err, err |-> 0,
                   nodes |-> IF ts.err = "cycle" THEN ts.cycleNodes ELSE ts.sortedOrder]
  /\ pc' = "sorted"
  /\ UNCHANGED <<fsVars, pkgDeps, pkgSources, pkgCflags, jobs, resolveVars, loadVars, targets, buildState,
                 hashCache, compileJobs, linkJobs, status, egErr, hist>>

NextTopo == SortTargets

SpecTopo == InitTopo /\ [][NextTopo]_vars

\* =========================================================================
\* SpecGraph: resolveBuildGraph on manifests with features
\* =========================================================================
\* [features] sections of the libraries
LibFeatures == {
  <<>>,
  [f \in {"default", "sse"} |-> IF f = "default" THEN <<Own("sse")>> ELSE <<>>],
  [f \in {"default", "sse"} |-> IF f = "default" THEN <<Own("sse")>> ELSE <<DepFeature("libb", "avx")>>],
  [f \in {"sse", "avx"} |-> IF f = "sse" THEN <<Own("avx")>> ELSE <<>>]}

\* [features] sections of the root
RootFeatures == {<<>>, [f \in {"default"} |-> <<DepFeature("liba", "sse")>>]}

\* a dependency as Dependency.UnmarshalTOML leaves it
DepSpecs == [DefaultFeatures : BOOLEAN, Features : {<<>>, <<"sse">>}]

\* [dependencies] sections: maps from some of the names in `on` to DepSpecs
DepSections(on) == UNION {[d -> DepSpecs] : d \in SUBSET on}

Manifests ==
  {[p \in Targets |-> IF p = RootName THEN [features |-> rf, dependencies |-> rd]
                      ELSE IF p = "liba" THEN [features |-> af, dependencies |-> ad]
                      ELSE [features |-> bf, dependencies |-> <<>>]] :
     rf \in RootFeatures, rd \in DepSections({"liba", "libb"}),
     af \in LibFeatures, ad \in DepSections({"libb"}), bf \in LibFeatures}

\* manifests of two libraries that depend on each other and ask features of
\* each other through their own features
CyclicManifests ==
  {[p \in Targets |-> IF p = RootName
                        THEN [features |-> <<>>, dependencies |-> [d \in {"liba"} |-> rd]]
                      ELSE IF p = "liba"
                        THEN [features |-> af, dependencies |-> [d \in {"libb"} |-> ad]]
                      ELSE [features |-> bf, dependencies |-> [d \in {"liba"} |-> bd]]] :
     rd \in DepSpecs, af \in LibFeatures, ad \in DepSpecs, bd \in DepSpecs,
     bf \in {<<>>, [f \in {"avx"} |-> <<DepFeature("liba", "sse")>>],
             [f \in {"default"} |-> <<DepFeature("liba", "sse")>>]}}

InitGraph ==
  /\ srcContent = [s \in AllSources |-> "v1"]
  /\ pkgDeps = [t \in Targets |-> {}]
  /\ FreshBuilder(0)
  /\ jobs = 1
  /\ manifest \in Manifests \cup CyclicManifests
  /\ graph = NewGraph
  /\ NothingLoaded

buildFrameOnly == <<fsVars, pkgDeps, pkgSources, pkgCflags, jobs, pc, targets, buildState, hashCache,
                    compileJobs, linkJobs, status, egErr, result, hist>>

buildFrame == <<buildFrameOnly, loadVars>>

\* NewBuilder parses the root with the command line's features (none) and
\* default-features flag; resolveBuildGraph runs pass 1
ResolvePass1 ==
  /\ graph.phase = "new"
  /\ \E defaultFeatures \in BOOLEAN :
       LET cfg == ParseConfig(RootName, <<>>, defaultFeatures)
       IN graph' = [phase |-> "pass2",
                    packages |-> pass1(SortedSeqOf(DOMAIN cfg.Dependencies),
                                       Put(<<>>, RootName, cfg)),
                    finalFeatures |-> Put(<<>>, RootName, {}),
                    changed |-> TRUE,
                    todo |-> {},
                    loads |-> [p \in DOMAIN pass1(SortedSeqOf(DOMAIN cfg.Dependencies),
                                                  Put(<<>>, RootName, cfg)) |->
                                 [features |-> {},
                                  useDefault |-> p = RootName /\ defaultFeatures]]]
  /\ UNCHANGED <<buildFrame, manifest>>

\* pass 2, `for changed`: another sweep over the packages map begins
Pass2Sweep ==
  /\ graph.phase = "pass2" /\ graph.todo = {} /\ graph.changed
  /\ graph' = [graph EXCEPT !.changed = FALSE, !.todo = DOMAIN graph.packages]
  /\ UNCHANGED <<buildFrame, manifest>>

\* pass 2, one iteration of `for pkgName, pkg := range packages` on the root
Pass2SkipRoot ==
  /\ graph.phase = "pass2" /\ RootName \in graph.todo
  /\ graph' = [graph EXCEPT !.todo = @ \ {RootName}]
  /\ UNCHANGED <<buildFrame, manifest>>

\* pass 2, one iteration on a dependency whose requested features are the
\* recorded ones: nothing is reloaded
Pass2Keep(pkgName) ==
  /\ graph.phase = "pass2" /\ pkgName \in graph.todo /\ pkgName # RootName
  /\ finalOf(graph.finalFeatures, pkgName) = requestedFeaturesOf(graph.packages, pkgName)
  /\ graph' = [graph EXCEPT !.todo = @ \ {pkgName}]
  /\ UNCHANGED <<buildFrame, manifest>>

\* pass 2, one iteration on a dependency whose requested features differ from
\* the recorded ones: the manifest is parsed again
Pass2Reload(pkgName) ==
  /\ graph.phase = "pass2" /\ pkgName \in graph.todo /\ pkgName # RootName
  /\ finalOf(graph.finalFeatures, pkgName) # requestedFeaturesOf(graph.packages, pkgName)
  /\ \E order \in Perms(requestedFeaturesOf(graph.packages, pkgName)) :
       graph' = [graph EXCEPT
         !.todo = @ \ {pkgName},
         !.changed = TRUE,
         !.finalFeatures = Put(@, pkgName, requestedFeaturesOf(graph.packages, pkgName)),
         !.loads[pkgName] = [features |-> requestedFeaturesOf(graph.packages, pkgName),
                             useDefault |-> useDefaultFeaturesOf(graph.packages, pkgName)],
         !.packages = Put(@, pkgName,
            ParseConfig(pkgName, order, useDefaultFeaturesOf(graph.packages, pkgName)))]
  /\ UNCHANGED <<buildFrame, manifest>>

\* a sweep changed nothing: resolveBuildGraph returns the packages
Pass2Return ==
  /\ graph.phase = "pass2" /\ graph.todo = {} /\ ~graph.changed
  /\ graph' = [graph EXCEPT !.phase = "resolved"]
  /\ UNCHANGED <<buildFrame, manifest>>

NextGraph ==
  \/ ResolvePass1
  \/ Pass2Sweep
  \/ Pass2SkipRoot
  \/ \E pkgName \in Targets : Pass2Keep(pkgName)
  \/ \E pkgName \in Targets : Pass2Reload(pkgName)
  \/ Pass2Return

SpecGraph == InitGraph /\ [][NextGraph]_vars

\* =========================================================================
\* SpecConfig: one process loads two manifests with conditional sub-sections
\* =========================================================================
CondKeys == {"target_os == 'linux'", "target_os == 'windows'", "feature('sse')"}

\* the contents of a conditional sub-section of [target]
TargetSubs == {
  ("sources" :> Val(<<"linux.c">>)) @@ ("cflags" :> Val(<<"-DSIMD={{feature('sse', 'avx')}}">>))
    @@ ("defines" :> Table("SSE" :> "1")),
  ("lib" :> Val(TRUE)) @@ ("sources" :> Val(<<"{{ target_arch }}.c">>))
    @@ ("defines" :> Table("LINUX" :> "1"))}

BaseTarget ==
  ("sources" :> Val(<<"main.c">>)) @@ ("cflags" :> Val(<<"-DSSE={{ feature('sse') }}">>))
    @@ ("defines" :> Table("GRAPHICS" :> "1"))

\* a sub-section under a key that evaluates to a string
ArchSub == "target_arch" :> Table(("sources" :> Val(<<"arch.c">>)) @@ ("lib" :> Val(TRUE)))

\* [target] sections: the base, a sub-section under some of the keys, and
\* possibly the one under target_arch
RawTargets ==
  {BaseTarget @@ [key \in DOMAIN subs |-> Table(subs[key])] @@ arch :
     subs \in UNION {[keys -> TargetSubs] : keys \in SUBSET CondKeys},
     arch \in {<<>>, ArchSub}}

RawPackages == {
  "name" :> Val("app"),
  ("name" :> Val("app")) @@ ("build" :> Val("make {{ jobs }}")),
  ("name" :> Val("app")) @@ ("target_os == 'linux'" :> Table("name" :> Val("app-linux")))}

DepOn(source) == [Source |-> source, DefaultFeatures |-> TRUE, Features |-> <<>>]

RawDependencies == {
  "liba" :> Val(DepOn("liba")),
  ("liba" :> Val(DepOn("liba"))) @@ ("target_os == 'linux'" :> Table("libb" :> Val(DepOn("libb")))),
  ("liba" :> Table(DepOn("liba"))) @@ ("target_os == 'windows'" :> Table("libb" :> Val(DepOn("libb"))))}

RawProfiles == {
  <<>>,
  "release" :> Table([OptLevel |-> "1"]),
  "feature('sse')" :> Table("release" :> Table([OptLevel |-> "0"])),
  ("debug" :> Table([OptLevel |-> "g"])) @@ ("target_arch" :> Table("debug" :> Table([OptLevel |-> "2"])))}

RawFeatures == {
  <<>>,
  ("default" :> <<Own("sse")>>) @@ ("sse" :> <<Own("avx"), DepFeature("liba", "simd")>>)}

\* env.Features and defaultFeatures of a load
LoadRequests == {<<>>, <<"avx">>}

RawManifests ==
  [package : RawPackages, dependencies : RawDependencies, profile : RawProfiles,
   target : RawTargets, features : RawFeatures]

\* a manifest without conditional sub-sections, with or without a profile
PlainManifests ==
  [package : {"name" :> Val("liba")}, dependencies : {<<>>},
   profile : {<<>>, "debug" :> Table([OptLevel |-> "s"])},
   target : {BaseTarget}, features : {<<>>}]

InitConfig ==
  /\ srcContent = [s \in AllSources |-> "v1"]
  /\ pkgDeps = [t \in Targets |-> {}]
  /\ FreshBuilder(0)
  /\ jobs = 1
  /\ Unresolved
  /\ rawConfigs \in {<<first, second>> : first \in RawManifests, second \in PlainManifests}
  /\ defaultProfiles = DefaultProfileTable
  /\ configs = <<>>
  /\ featureArgs = [f |-> <<>>, requested |-> <<>>, useDefault |-> FALSE, given |-> <<>>]
  /\ resolved = <<>>
  /\ build = NoBuild
  /\ merge = NoMerge

\* ParseConfig of the next manifest; featureArgs keeps what ResolveFeatures
\* was called with
LoadManifest ==
  /\ Len(configs) < Len(rawConfigs)
  /\ \E requested \in LoadRequests, defaultFeatures \in BOOLEAN :
       \E out \in {ParseRaw(rawConfigs[Len(configs) + 1], requested, defaultFeatures, orders,
                             defaultProfiles) :
                      orders \in LoadOrders(rawConfigs[Len(configs) + 1])} :
         /\ configs' = Append(configs, out.cfg)
         /\ defaultProfiles' = out.profiles
         /\ featureArgs' =
              [f |-> rawConfigs[Len(configs) + 1].features,
               requested |-> SeqMap(Own, requested),
               useDefault |-> defaultFeatures,
               given |-> [f |-> rawConfigs[Len(configs) + 1].features,
                          requested |-> SeqMap(Own, requested)]]
  /\ UNCHANGED <<buildFrameOnly, resolveVars, rawConfigs, resolved, build, merge>>

NextConfig == LoadManifest

SpecConfig == InitConfig /\ [][NextConfig]_vars

\* =========================================================================
\* SpecFeatures: repeated ResolveFeatures calls on the same arguments
\* =========================================================================
FeatureGraphs ==
  LibFeatures \cup RootFeatures
    \cup {[f \in {"sse", "avx"} |-> IF f = "sse" THEN <<Own("avx")>> ELSE <<Own("sse")>>]}

RequestedEntries == {Own("sse"), Own("avx"), Own("default"), DepFeature("libb", "avx")}

RequestedLists ==
  {<<>>} \cup {<<a>> : a \in RequestedEntries}
         \cup {<<a, b>> : a \in RequestedEntries, b \in RequestedEntries}
         \cup Perms({Own("sse"), Own("default"), DepFeature("libb", "avx")})

InitFeatures ==
  /\ srcContent = [s \in AllSources |-> "v1"]
  /\ pkgDeps = [t \in Targets |-> {}]
  /\ FreshBuilder(0)
  /\ Unresolved
  /\ rawConfigs = <<>>
  /\ defaultProfiles = DefaultProfileTable
  /\ configs = <<>>
  /\ \E f \in FeatureGraphs, requested \in RequestedLists, useDefault \in BOOLEAN :
       featureArgs = [f |-> f, requested |-> requested, useDefault |-> useDefault,
                      given |-> [f |-> f, requested |-> requested]]
  /\ resolved = <<>>
  /\ build = NoBuild
  /\ merge = NoMerge

\* one call f.ResolveFeatures(requested, useDefault)
ResolveCall ==
  /\ Len(resolved) < MaxCalls
  /\ resolved' = Append(resolved,
       ResolveFeatures(featureArgs.f, featureArgs.requested, featureArgs.useDefault))
  /\ featureArgs' = [featureArgs EXCEPT !.f =
       featuresAfter(@, ResolveFeatures(featureArgs.f, featureArgs.requested,
                                        featureArgs.useDefault).ownFeatures)]
  /\ UNCHANGED <<buildFrameOnly, resolveVars, rawConfigs, defaultProfiles, configs, build, merge>>

NextFeatures == ResolveCall

SpecFeatures == InitFeatures /\ [][NextFeatures]_vars

\* =========================================================================
\* SpecMerge: calls of mergeStructs on two sections of the same type
PackageValues == [Name : {"", "app", "lib"}, Build : {"", "make"}]

TargetValues ==
  [Lib : BOOLEAN,
   Sources : {<<>>, <<"a.c">>, <<"a.c", "b.c">>},
   Defines : {<<>>, "A" :> "1", ("A" :> "2") @@ ("B" :> "1")},
   Cflags : {<<>>, <<"-O2">>}]

InitMerge ==
  /\ srcContent = [s \in AllSources |-> "v1"]
  /\ pkgDeps = [t \in Targets |-> {}]
  /\ FreshBuilder(0)
  /\ Unresolved
  /\ rawConfigs = <<>>
  /\ defaultProfiles = DefaultProfileTable
  /\ configs = <<>>
  /\ featureArgs = [f |-> <<>>, requested |-> <<>>, useDefault |-> FALSE, given |-> <<>>]
  /\ resolved = <<>>
  /\ build = NoBuild
  /\ \E values \in {PackageValues, TargetValues} :
       \E dst \in values, src \in values :
         merge = [dst |-> dst, src |-> src, given |-> [dst |-> dst, src |-> src],
                  calls |-> 0]

\* one call mergeStructs(&dst, src): dst is written field by field, src is read
MergeCall ==
  /\ merge.calls < MaxCalls
  /\ merge' = [merge EXCEPT !.dst = mergeStructs(merge.dst, merge.src),
                            !.given = [dst |-> merge.dst, src |-> merge.src],
                            !.calls = @ + 1]
  /\ UNCHANGED <<buildFrameOnly, resolveVars, rawConfigs, defaultProfiles, configs,
                 featureArgs, resolved, build>>

NextMerge == MergeCall

SpecMerge == InitMerge /\ [][NextMerge]_vars

\* =========================================================================
\* SpecBuild: Builder.Build from resolveBuildGraph's first pass to g.Invoke
\* =========================================================================
\* the manifests behind the root's dependency keys, as the second pass leaves
\* the configs: declared name, target kind, build script, enabled features
GitSource(name) == <<"git:", name>>
PathSource(name) == <<"", name>>

PackageKinds == {[Lib |-> TRUE, HeaderOnly |-> FALSE], [Lib |-> FALSE, HeaderOnly |-> FALSE],
                 [Lib |-> FALSE, HeaderOnly |-> TRUE]}

PackageConfig(name, kind, script, deps, features) ==
  [Name |-> name, Lib |-> kind.Lib, HeaderOnly |-> kind.HeaderOnly, Build |-> script,
   Dependencies |-> deps, enabledFeatures |-> features]

RootConfigs(envFeatures) ==
  {PackageConfig("app", [Lib |-> FALSE, HeaderOnly |-> FALSE], script, deps,
                 envFeatures \cup defaults) :
     script \in {"", "feature('sse')"}, deps \in {{"liba"}, {"liba", "libb"}},
     defaults \in {{}, {"sse"}}}

LibAConfigs ==
  {PackageConfig(name, kind, script, deps, features) :
     name \in {"liba", "libb"}, kind \in PackageKinds,
     script \in {"", "feature('sse')", "target_os == 'windows'"},
     deps \in {{}, {"libb"}}, features \in {{}, {"sse"}}}

LibBConfigs ==
  {PackageConfig(name, kind, "", {}, {}) :
     name \in {"libb", "util"}, kind \in PackageKinds \ {[Lib |-> FALSE, HeaderOnly |-> TRUE]}}

DepKeys == {"liba", "libb"}

\* resolveBuildGraph before the loop of pass 1: the root is among the packages,
\* its dependencies are in depSpecs and, in the order of the range loop, in the
\* queue. remote are the manifests, declared the specs each of them gives to
\* its dependencies, depsDir what build/_deps/<name> is.
Pass1Start(remote, declared, depsDir, envFeatures, queue) ==
  [phase |-> "pass1", remote |-> remote, declared |-> declared, depsDir |-> depsDir,
   envFeatures |-> envFeatures, queue |-> queue,
   depSpecs |-> [d \in DOMAIN declared[RootName] |-> declared[RootName][d]],
   packages |-> RootName :> remote[RootName],
   todo |-> {}, targets |-> <<>>, err |-> NoErr,
   hist |-> [found |-> depsDir, seen |-> specsInOrder(declared[RootName], queue),
             fetched |-> [k \in DepKeys |-> 0], loaded |-> [k \in DepKeys |-> 0],
             failed |-> {}, runs |-> 1]]

InitBuild ==
  /\ srcContent = [s \in AllSources |-> "v1"]
  /\ pkgDeps = [t \in Targets |-> {}]
  /\ FreshBuilder(0)
  /\ Unresolved
  /\ rawConfigs = <<>>
  /\ defaultProfiles = DefaultProfileTable
  /\ configs = <<>>
  /\ featureArgs = [f |-> <<>>, requested |-> <<>>, useDefault |-> FALSE, given |-> <<>>]
  /\ resolved = <<>>
  /\ merge = NoMerge
  /\ \E envFeatures \in {{}, {"sse"}} :
       \E root \in RootConfigs(envFeatures), a \in LibAConfigs, b \in LibBConfigs,
          sourceA \in {GitSource("liba"), PathSource("../liba")},
          sourceB \in {GitSource("libb"), PathSource("../libb")} :
       \E queue \in Perms(root.Dependencies) :
         build = Pass1Start(
                   [k \in Targets |-> IF k = "app" THEN root ELSE IF k = "liba" THEN a ELSE b],
                   [k \in Targets |->
                      [d \in (IF k = "app" THEN root ELSE IF k = "liba" THEN a ELSE b).Dependencies
                         |-> IF d = "liba" THEN sourceA ELSE sourceB]],
                   [k \in DepKeys |-> "absent"], envFeatures, queue)

buildOnlyFrame == <<buildFrameOnly, resolveVars, rawConfigs, defaultProfiles, configs,
                    featureArgs, resolved, merge>>

\* pass 1, `if _, exists := packages[depName]; exists { continue }`
Pass1Skip ==
  /\ build.phase = "pass1" /\ build.queue # <<>>
  /\ Head(build.queue) \in DOMAIN build.packages
  /\ build' = [build EXCEPT !.queue = Tail(@)]
  /\ UNCHANGED buildOnlyFrame

\* the fetcher runs when os.Stat finds no directory at depPath
fetches(at) == IF at = "absent" THEN 1 ELSE 0

\* pass 1, one dependency fetched into depsDir/<depName> unless a directory is
\* there, and its manifest parsed from there
Pass1Load ==
  /\ build.phase = "pass1" /\ build.queue # <<>>
  /\ LET depName == Head(build.queue)
     IN /\ depName \notin DOMAIN build.packages
        /\ build.depsDir[depName] # "file"
        /\ depPathAfter(build.depSpecs[depName], build.depsDir[depName]) = "package"
        /\ \E more \in Perms(build.remote[depName].Dependencies) :
             build' = [build EXCEPT
               !.depsDir[depName] = "package",
               !.packages = Put(@, depName, build.remote[depName]),
               !.depSpecs = recordSpecs(@, build.declared[depName], more),
               !.queue = Tail(@) \o more,
               !.hist.seen = @ \o specsInOrder(build.declared[depName], more),
               !.hist.fetched[depName] = @ + fetches(build.depsDir[depName]),
               !.hist.loaded[depName] = @ + 1]
  /\ UNCHANGED buildOnlyFrame

\* pass 1, ParseConfigFromFile finds no Qobs.toml in depsDir/<depName>
Pass1Fail ==
  /\ build.phase = "pass1" /\ build.queue # <<>>
  /\ LET depName == Head(build.queue)
     IN /\ depName \notin DOMAIN build.packages
        /\ build.depsDir[depName] # "file"
        /\ depPathAfter(build.depSpecs[depName], build.depsDir[depName]) # "package"
        /\ build' = [build EXCEPT
             !.depsDir[depName] = depPathAfter(build.depSpecs[depName], @),
             !.phase = "failed",
             !.err = [kind |-> "failed to parse initial config", pkg |-> "",
                      dep |-> depName],
             !.hist.fetched[depName] = @ + fetches(build.depsDir[depName])]
  /\ UNCHANGED buildOnlyFrame

\* pass 1, depPath is a file: os.MkdirAll returns an error that is not IsExist
Pass1MkdirFail ==
  /\ build.phase = "pass1" /\ build.queue # <<>>
  /\ LET depName == Head(build.queue)
     IN /\ depName \notin DOMAIN build.packages
        /\ build.depsDir[depName] = "file"
        /\ build' = [build EXCEPT
             !.phase = "failed",
             !.err = [kind |-> "mkdir", pkg |-> "", dep |-> depName]]
  /\ UNCHANGED buildOnlyFrame

\* resolveBuildGraph returns the packages; the loop over them starts
Pass1Done ==
  /\ build.phase = "pass1" /\ build.queue = <<>>
  /\ build' = [build EXCEPT !.phase = "targets", !.todo = DOMAIN build.packages]
  /\ UNCHANGED buildOnlyFrame

\* the dependencies of pkg the loop over pkg.Config.Dependencies may stop at
rejectedDeps(packages, pkg) ==
  {depName \in packages[pkg].Dependencies : notLibrary(packages[depName])}

\* one round of `for _, pkg := range packages`: a dependency is no library
AddTargetRejected(pkg) ==
  /\ build.phase = "targets" /\ pkg \in build.todo
  /\ \E depName \in rejectedDeps(build.packages, pkg) :
       build' = [build EXCEPT
         !.phase = "failed",
         !.err = [kind |-> "not a library", pkg |-> build.packages[pkg].Name,
                  dep |-> build.packages[depName].Name]]
  /\ UNCHANGED buildOnlyFrame

\* one round: pkg.Config.RunBuildScript(b.env) returns an error
AddTargetScriptFailed(pkg) ==
  /\ build.phase = "targets" /\ pkg \in build.todo
  /\ rejectedDeps(build.packages, pkg) = {}
  /\ ~scriptPasses(build.packages[pkg], build.envFeatures)
  /\ build' = [build EXCEPT
       !.phase = "failed",
       !.err = [kind |-> "build script", pkg |-> build.packages[pkg].Name, dep |-> ""]]
  /\ UNCHANGED buildOnlyFrame

\* one round: the package is registered with the generator, unless header-only
AddTargetDone(pkg) ==
  /\ build.phase = "targets" /\ pkg \in build.todo
  /\ rejectedDeps(build.packages, pkg) = {}
  /\ scriptPasses(build.packages[pkg], build.envFeatures)
  /\ build' = [build EXCEPT
       !.todo = @ \ {pkg},
       !.targets =
         IF build.packages[pkg].HeaderOnly THEN @
         ELSE Put(@, outputName(build.packages[pkg]),
                  [owner |-> pkg,
                   isLib |-> build.packages[pkg].Lib,
                   deps |-> {outputName(build.packages[d]) :
                               d \in {x \in build.packages[pkg].Dependencies :
                                        ~build.packages[x].HeaderOnly}}])]
  /\ UNCHANGED buildOnlyFrame

\* g.Generate and g.Invoke(buildDir)
BuildInvoke ==
  /\ build.phase = "targets" /\ build.todo = {}
  /\ build' = [build EXCEPT !.phase = "invoked"]
  /\ UNCHANGED buildOnlyFrame

NextBuild ==
  \/ Pass1Skip
  \/ Pass1Load
  \/ Pass1Fail
  \/ Pass1Done
  \/ \E pkg \in Targets : AddTargetRejected(pkg)
  \/ \E pkg \in Targets : AddTargetScriptFailed(pkg)
  \/ \E pkg \in Targets : AddTargetDone(pkg)
  \/ BuildInvoke

SpecBuild == InitBuild /\ [][NextBuild]_vars

\* =========================================================================
\* SpecPass1: the first pass on dependency graphs with cycles, with specs
\* that differ between the packages naming a dependency, and with
\* build/_deps/<name> absent, a file, an empty directory or the package
\* =========================================================================
\* the names each package depends on
DependencyNames ==
  {[k \in Targets |-> IF k = "app" THEN root ELSE IF k = "liba" THEN a ELSE b] :
     root \in {{"liba"}, {"liba", "libb"}},
     a \in {{}, {"libb"}, {"app", "libb"}},
     b \in {{}, {"liba"}, {"libb"}}}

InitPass1 ==
  /\ srcContent = [s \in AllSources |-> "v1"]
  /\ pkgDeps = [t \in Targets |-> {}]
  /\ FreshBuilder(0)
  /\ jobs = 1
  /\ Unresolved
  /\ rawConfigs = <<>>
  /\ defaultProfiles = DefaultProfileTable
  /\ configs = <<>>
  /\ featureArgs = [f |-> <<>>, requested |-> <<>>, useDefault |-> FALSE, given |-> <<>>]
  /\ resolved = <<>>
  /\ merge = NoMerge
  /\ \E names \in DependencyNames :
       \E kinds \in [{<<k, d>> \in Targets \X Targets : d \in names[k]} -> {"git:", ""}],
          depsDir \in [DepKeys -> {"absent", "file", "empty", "package"}],
          queue \in Perms(names[RootName]) :
         build = Pass1Start(
                   [k \in Targets |->
                      PackageConfig(k, [Lib |-> k # RootName, HeaderOnly |-> FALSE], "",
                                    names[k], {})],
                   [k \in Targets |-> [d \in names[k] |-> <<kinds[<<k, d>>], d>>]],
                   depsDir, {}, queue)

NextPass1 ==
  \/ Pass1Skip
  \/ Pass1Load
  \/ Pass1Fail
  \/ Pass1MkdirFail
  \/ Pass1Done

SpecPass1 == InitPass1 /\ [][NextPass1]_vars

\* the loop of pass 1 is not suspended
SpecPass1Fair == SpecPass1 /\ WF_vars(NextPass1)

\* =========================================================================
\* SpecFetch: Build called again after a dependency could not be fetched
\* =========================================================================
\* pass 1, depPath is absent: os.MkdirAll makes the directory, fetchDependency
\* returns an error (the clone fails) and resolveBuildGraph returns
\* "failed to fetch dependency"; the directory stays
Pass1FetchFail ==
  /\ build.phase = "pass1" /\ build.queue # <<>> /\ build.hist.runs = 1
  /\ LET depName == Head(build.queue)
     IN /\ depName \notin DOMAIN build.packages
        /\ build.depsDir[depName] = "absent"
        /\ build.depSpecs[depName][1] = "git:"
        /\ build' = [build EXCEPT
             !.depsDir[depName] = "empty",
             !.phase = "failed",
             !.err = [kind |-> "failed to fetch dependency", pkg |-> "", dep |-> depName],
             !.hist.fetched[depName] = @ + 1,
             !.hist.failed = @ \cup {depName}]
  /\ UNCHANGED buildOnlyFrame

\* Build is called again on the same manifests, build/_deps as the last call
\* left it
BuildAgain ==
  /\ build.phase = "failed" /\ build.hist.runs < MaxBuilds
  /\ \E queue \in Perms(DOMAIN build.declared[RootName]) :
       build' = [Pass1Start(build.remote, build.declared, build.depsDir, build.envFeatures, queue)
                   EXCEPT !.hist = [build.hist EXCEPT !.runs = @ + 1]]
  /\ UNCHANGED buildOnlyFrame

NextFetch ==
  \/ Pass1Skip
  \/ Pass1Load
  \/ Pass1Fail
  \/ Pass1MkdirFail
  \/ Pass1Done
  \/ Pass1FetchFail
  \/ BuildAgain

SpecFetch == InitPass1 /\ [][NextFetch]_vars

\* =========================================================================
\* Properties of the incremental build (Spec)
\* =========================================================================
OwnerOf(s) == CHOOSE t \in Targets : s \in Range(SourcesOf[t])

\* the targets that depend on t, directly or through other targets
RECURSIVE DependentsClosure(_, _)
DependentsClosure(S, k) ==
  IF k = 0 THEN S
  ELSE DependentsClosure(S \cup {u \in Targets : pkgDeps[u] \cap S # {}}, k - 1)
TransitiveDependents(t) == DependentsClosure({t}, Cardinality(Targets)) \ {t}

LinkedNames == {linkJobs[i].name : i \in 1..Len(linkJobs)}
CompiledObjs == {compileJobs[i].obj : i \in 1..Len(compileJobs)}

\* the last invocation started right after one that returned nil, with no
\* edit in between
FromCleanState ==
  hist.base.valid /\ hist.base.changed = {} /\ hist.base.cflagsSame

\* C1: after a successful build, a build with nothing changed plans no
\* compile job and no link job, reports "no work to do" and leaves the state
\* file as it was.
C1_NoOpRebuild ==
  FromCleanState =>
    /\ compileJobs = <<>> /\ linkJobs = <<>>
    /\ result.kind = "nowork"
    /\ stateFile = hist.stateBefore

\* C2: after a successful build, if exactly one source S of target T changed
\* and nothing else, the plan has exactly one compile job, for S, and link
\* jobs for exactly T and the targets that transitively depend on T.
C2_DirtinessMinimality ==
  (hist.base.valid /\ hist.base.cflagsSame /\ Cardinality(hist.base.changed) = 1) =>
    \A s \in hist.base.changed :
      /\ Len(compileJobs) = 1
      /\ compileJobs[1].src = s
      /\ LinkedNames = {OwnerOf(s)} \cup TransitiveDependents(OwnerOf(s))

\* C9: while a build runs, every library whose set of compile flags differs
\* from the recorded one and whose sources are unchanged has a compile job
\* for each of its sources and a link job.
C9_RebuildOnCflagChange ==
  pc # "idle" =>
    \A t \in Targets :
      (/\ IsLibOf[t] /\ t \in DOMAIN hist.stateBefore
       /\ Range(hist.stateBefore[t].Cflags) # Range(targets[t].cflags)
       /\ \A s \in Range(SourcesOf[t]) :
            hist.stateBefore[t].Sources[s] = Sha256([kind |-> "source", content |-> srcContent[s]]))
      => /\ t \in LinkedNames
         /\ \A s \in Range(SourcesOf[t]) : <<t, s>> \in CompiledObjs

\* =========================================================================
\* Properties of the job pool (SpecSched)
\* =========================================================================
Started(st) == {i \in 1..Len(st) : st[i] # "pending"}

\* the link jobs planned in this run for the dependencies of link job i
UpstreamJobs(i) ==
  {j \in 1..Len(linkJobs) : linkJobs[j].name \in Range(linkJobs[i].deps)}

\* the compile jobs planned in this run that produce an object of link job i
ObjectJobs(i) ==
  {c \in 1..Len(compileJobs) : compileJobs[c].obj \in Range(linkJobs[i].objs)}

\* C3: a link job that has started finds the link job of every target it
\* depends on (if planned in this run) completed successfully.
C3_LinkAfterUpstreamLinks ==
  pc = "link" =>
    \A i \in Started(status) : \A j \in UpstreamJobs(i) : status[j] = "ok"

\* C4: a link job starts only after every compile job of this run that
\* produces one of its objects has completed.
C4_CompileBeforeLink ==
  pc = "link" =>
    \A i \in Started(status) : \A c \in ObjectJobs(i) :
      c \in DOMAIN hist.compiled /\ hist.compiled[c] \in {"ok", "failed"}

C4_Witness ==
  /\ pc = "link" /\ jobs > 1
  /\ \E i \in Started(status) : Cardinality(ObjectJobs(i)) > 1

\* C6: once a job of the running phase has returned an error, no job of that
\* phase that has not started is started.
C6_NoStartAfterError ==
  [][(pc \in {"compile", "link"} /\ pc' = pc /\ egErr # 0)
       => \A i \in 1..Len(status) : status[i] = "pending" => status'[i] = "pending"]_vars

\* C7: when a compile job failed, no link job is started in the invocation,
\* and the invocation returns only when no compile job is running any more,
\* with the error of the compile job that failed first.
C7_CompileFailure ==
  hist.compileFails # <<>> =>
    /\ pc # "link" /\ ~hist.linkEntered
    /\ pc = "idle" =>
         /\ result.kind = "compilation failed"
         /\ result.err = Head(hist.compileFails)
         /\ Running(status) = {}

C7_Witness ==
  /\ pc = "idle" /\ result.kind = "compilation failed"
  /\ Len(hist.compileFails) > 1
  /\ hist.compileFails[1] > hist.compileFails[2]
  /\ \E i \in 1..Len(status) : status[i] = "ok"

\* C8: the number of jobs that have started and not finished never exceeds
\* the job limit.
C8_BoundedConcurrency == Cardinality(Running(status)) <= jobs

C8_Witness ==
  /\ Cardinality(Running(status)) = jobs /\ jobs > 1
  /\ \E i \in 1..Len(status) : status[i] = "pending"

\* =========================================================================
\* Properties of topologicalSortTargets (SpecTopo)
\* =========================================================================
\* the targets reached from the targets of S by at most k dependency edges
RECURSIVE DependenciesClosure(_, _)
DependenciesClosure(S, k) ==
  IF k = 0 THEN S
  ELSE DependenciesClosure(S \cup UNION {pkgDeps[u] : u \in S}, k - 1)

\* the targets that lie on a dependency cycle
OnCycle ==
  {t \in Targets : t \in DependenciesClosure(pkgDeps[t], Cardinality(Targets))}

\* C5: the sort of a graph with a cycle fails with exactly the targets that
\* lie on a cycle, in sorted order; the sort of an acyclic graph does not fail.
C5_CycleNodesExact ==
  pc = "sorted" =>
    IF OnCycle = {} THEN result.kind = "none"
    ELSE result.kind = "cycle" /\ result.nodes = SortedSeqOf(OnCycle)

\* =========================================================================
\* Properties of resolveBuildGraph (SpecGraph)
\* =========================================================================
\* the features of P's own that its `default` feature lists
DefaultEntries(p) ==
  IF "default" \in DOMAIN manifest[p].features
    THEN {e[2] : e \in {x \in Range(manifest[p].features["default"]) : x[1] = ""}}
    ELSE {}

\* C10: in the packages resolveBuildGraph returns, a dependency that some
\* parent's dependency entry gives default-features = true has the entries of
\* its `default` feature among its enabled features.
C10_DefaultFeaturesReachDeps ==
  graph.phase = "resolved" =>
    \A p \in DOMAIN graph.packages \ {RootName} :
      useDefaultFeaturesOf(graph.packages, p) =>
        DefaultEntries(p) \subseteq graph.packages[p].enabledFeatures

\* pass 2 is a sequential loop: whenever a step of it is possible, one is taken
SpecGraphFair == InitGraph /\ [][NextGraph]_vars /\ WF_vars(NextGraph)

SectionNames == {"package", "dependencies", "profile", "target"}

\* the manifest loaded last, with its strings evaluated, and the Config
\* returned for it
LastRaw == processExpressions(rawConfigs[Len(configs)], configs[Len(configs)].enabledFeatures).val
LastConfig == configs[Len(configs)]

\* the conditional sub-sections of a section whose key evaluates to true
truthyFields(section, features) ==
  {key \in conditionalFields(section) : Run(key, features) = "true"}

\* the section of the Config returned last; its Profile is the table
\* defaultProfiles itself
sectionValue(name) ==
  CASE name = "package" -> LastConfig.Package
    [] name = "dependencies" -> LastConfig.Dependencies
    [] name = "profile" -> defaultProfiles
    [] OTHER -> LastConfig.Target

\* the typed base of a section and the typed form of its sub-section `key`
typedBase(name, section) ==
  CASE name = "package" ->
         tomlUnmarshal("struct", [k \in DOMAIN section \ conditionalFields(section) |-> section[k]], ZeroPackage)
    [] name = "target" ->
         tomlUnmarshal("struct", [k \in DOMAIN section \ conditionalFields(section) |-> section[k]], ZeroTarget)
    [] name = "profile" ->
         tomlUnmarshal("map", [k \in DOMAIN section \ conditionalFields(section) |-> section[k]], DefaultProfileTable)
    [] OTHER ->
         tomlUnmarshal("map", [k \in DOMAIN section \ conditionalFields(section) |-> section[k]], <<>>)

typedSub(name, section, key) ==
  CASE name = "package" -> tomlUnmarshal("struct", section[key].val, ZeroPackage)
    [] name = "target" -> tomlUnmarshal("struct", section[key].val, ZeroTarget)
    [] OTHER -> tomlUnmarshal("map", section[key].val, <<>>)

\* the merge rules: field by field for a struct, entry by entry for a mapping
mergedByRules(name, base, sub) ==
  IF name \in {"package", "target"} THEN mergeStructs(base, sub)
  ELSE mergeField("map", base, sub)

\* C11: a section of the manifest loaded last (package, dependencies, profile
\* or target) that has one conditional sub-section with a true key makes
\* ParseConfig succeed with that sub-section merged into the section's base.
C11_ConditionalMergedEverywhere ==
  configs # <<>> =>
    \A name \in SectionNames :
      \A key \in truthyFields(LastRaw[name], LastConfig.enabledFeatures) :
        truthyFields(LastRaw[name], LastConfig.enabledFeatures) = {key} =>
          /\ LastConfig.err = ""
          /\ sectionValue(name) =
               mergedByRules(name, typedBase(name, LastRaw[name]), typedSub(name, LastRaw[name], key))

\* the Defines of the sub-section `key` of [target]
definesOf(key) == typedSub("target", LastRaw.target, key).Defines

\* C12: when [target] of the manifest loaded last has two conditional
\* sub-sections with true keys and no define in common, every visiting order
\* gives the Target that was returned.
C12_MergeOrderIndependent ==
  configs # <<>> =>
    LET truthy == truthyFields(LastRaw.target, LastConfig.enabledFeatures)
    IN (/\ Cardinality(truthy) = 2
        /\ \A k1, k2 \in truthy : k1 # k2 => DOMAIN definesOf(k1) \cap DOMAIN definesOf(k2) = {})
       => \A order \in Perms(conditionalFields(LastRaw.target)) :
            unmarshalConditionalSection("struct", LastRaw.target, ZeroTarget,
                                        LastConfig.enabledFeatures, order).val
              = LastConfig.Target

\* C17: loading manifests leaves the default profile table, which is the
\* Profile of every Config returned so far, as it was initialised.
C17_LoaderReentrant == defaultProfiles = DefaultProfileTable

GraphResolved ==
  /\ build.phase \in {"targets", "failed", "invoked"}
  /\ build.err.kind # "failed to parse initial config"

\* <<package, dependency>> where the dependency is neither a library nor
\* header-only
NonLibraryPairs ==
  {pair \in (DOMAIN build.packages) \X (DOMAIN build.packages) :
     /\ pair[2] \in build.packages[pair[1]].Dependencies
     /\ ~build.packages[pair[2]].Lib
     /\ ~build.packages[pair[2]].HeaderOnly}

C18_ScriptUsesOwnFeatures ==
  /\ build.phase = "invoked" =>
       \A pkg \in DOMAIN build.packages :
         scriptPasses(build.packages[pkg], build.packages[pkg].enabledFeatures)
  /\ (build.phase = "failed" /\ build.err.kind = "build script") =>
       \E pkg \in DOMAIN build.packages :
         /\ build.err.pkg = build.packages[pkg].Name
         /\ ~scriptPasses(build.packages[pkg], build.packages[pkg].enabledFeatures)

\* C19: when the generator is invoked, every resolved package that is not
\* header-only owns a registered target, whatever names the packages declare.
C19_TargetNamesUnique ==
  build.phase = "invoked" =>
    \A pkg \in DOMAIN build.packages :
      ~build.packages[pkg].HeaderOnly =>
        \E name \in DOMAIN build.targets : build.targets[name].owner = pkg

\* C20: a dependency given by a filesystem path is resolved once the first
\* pass has handled it: its manifest is read and it is among the packages.
C20_PathDependencyResolved ==
  \A depName \in DOMAIN build.depSpecs :
    (build.depSpecs[depName][1] = "" /\ build.depsDir[depName] # "absent")
      => depName \in DOMAIN build.packages

\* =========================================================================
\* Properties of the state file (SpecState)
\* =========================================================================
\* the state file could not be fully decoded
Corrupted(file) ==
  \/ file \in {NotJson, JsonNull}
  \/ IsObject(file) /\ \E t \in DOMAIN file : file[t] \in {JsonNumber, JsonNull}

\* Invoke has planned and no job has started
JustPlanned == pc = "compile" /\ status = NewPhase(compileJobs)

\* the plan of the same targets on the same files with no state file
PlanWithoutState == planBuild(Sorted(targets).sortedOrder, targets, <<>>, 1, EmptyPlan)

\* C16: an Invoke that found a state file it could not fully decode plans the
\* compile and link jobs it plans with no state file, so it never finds no
\* work to do, and it does not panic.
C16_CorruptedStateIgnored ==
  Corrupted(hist.stateBefore) =>
    /\ JustPlanned =>
         /\ compileJobs = PlanWithoutState.compileJobs
         /\ linkJobs = PlanWithoutState.linkJobs
    /\ result.kind \notin {"nowork", "panic"}

\* =========================================================================
\* Properties of planBuild and updateBuildState (SpecPlan)
\* =========================================================================
Planned == pc = "planned"
HasLinkJob(T) == \E i \in 1..Len(linkJobs) : linkJobs[i].name = T
RecordOf(T) == StateOf(buildState, T)

\* the object is missing, there is no record, or the recorded hash of the
\* source is absent or differs from the hash of the file
DirtySource(T, src) ==
  \/ objFile[src.obj] = NoFile
  \/ RecordOf(T) = Nil
  \/ src.src \notin DOMAIN RecordOf(T).Sources
  \/ RecordOf(T).Sources[src.src] # Sha256(FileAt(SrcPath(src.src)))

\* the recorded hash of the artifact of d is absent or differs from the file's
DependencyChanged(T, d) ==
  \/ artifact[d] = NoFile
  \/ RecordOf(T) = Nil
  \/ d \notin DOMAIN RecordOf(T).Dependencies
  \/ RecordOf(T).Dependencies[d] # Sha256(artifact[d])

RelinkReasons(T) ==
  \/ artifact[T] = NoFile
  \/ RecordOf(T) # Nil /\ RecordOf(T).Cflags # targets[T].cflags
  \/ RecordOf(T) # Nil /\ RecordOf(T).Ldflags # targets[T].ldflags
  \/ \E d \in Range(targets[T].dependencies) : HasLinkJob(d)
  \/ \E d \in Range(targets[T].dependencies) : DependencyChanged(T, d)
  \/ \E i \in 1..Len(targets[T].sources) : DirtySource(T, targets[T].sources[i])

\* C21: a plan holds a link job for target T, and only one, exactly when the
\* artifact of T is missing, its compile or link flags differ from the
\* recorded ones, a direct dependency has a link job in the plan, the hash of
\* a dependency artifact is absent from the record or differs, or T has a
\* dirty source.
C21_RelinkRule ==
  Planned =>
    \A T \in Targets :
      /\ HasLinkJob(T) <=> RelinkReasons(T)
      /\ Cardinality({i \in 1..Len(linkJobs) : linkJobs[i].name = T}) <= 1

C21_Witness ==
  /\ Planned
  /\ HasLinkJob("app") /\ ~HasLinkJob("liba") /\ ~HasLinkJob("libb")
  /\ compileJobs = <<>>
  /\ artifact["app"] # NoFile

\* the compile jobs of the plan for the source path s of target T
CompileJobsOf(T, s) == {i \in 1..Len(compileJobs) : compileJobs[i].obj = <<T, s>>}

\* C22: a plan holds exactly one compile job for each source of a target that
\* is dirty (object missing, no record, hash absent or different) and none
\* for a clean one.
C22_DirtySourceRule ==
  Planned =>
    \A T \in Targets :
      \A k \in 1..Len(targets[T].sources) :
        Cardinality(CompileJobsOf(T, targets[T].sources[k].src)) =
          IF DirtySource(T, targets[T].sources[k]) THEN 1 ELSE 0

\* =========================================================================
\* Properties of the state update (Spec)
\* =========================================================================
\* the record of target n in the state file is the one this invocation's
\* targets give: their source paths and their flag lists
Rewritten(n) ==
  /\ n \in DOMAIN stateFile
  /\ DOMAIN stateFile[n].Sources = {targets[n].sources[k].src : k \in 1..Len(targets[n].sources)}
  /\ stateFile[n].Cflags = targets[n].cflags
  /\ stateFile[n].Ldflags = targets[n].ldflags

\* C23: when Invoke has returned because a link job failed, every target
\* whose link job succeeded in that invocation has its record rewritten in
\* the state file.
C23_StateUpdatedPerLink ==
  (pc = "idle" /\ result.kind = "linking failed") =>
    \A i \in 1..Len(status) : status[i] = "ok" => Rewritten(linkJobs[i].name)

\* the record of t was updated while the artifact of some dependency of t was
\* missing
UpdatedWithMissing(t) == t \in hist.updated /\ hist.missing # {}

SeedItems(f, requested, useDefault) ==
  Range(requested)
    \cup (IF useDefault /\ "default" \in DOMAIN f THEN Range(f["default"]) ELSE {})

\* the least set of items that contains S and, with an item "x" that has an
\* entry in f, the items of f[x]
RECURSIVE LeastClosed(_, _)
LeastClosed(f, S) ==
  LET more == UNION {Range(f[x[2]]) : x \in {y \in S : y[1] = "" /\ y[2] \in DOMAIN f}}
  IN IF more \subseteq S THEN S ELSE LeastClosed(f, S \cup more)

ClosureOfArgs ==
  LeastClosed(featureArgs.given.f,
              SeedItems(featureArgs.given.f, featureArgs.given.requested, featureArgs.useDefault))

\* C25: every call of ResolveFeatures returns as own features the items
\* without '/' of the least closed set, and for each dependency a the list,
\* without repetition, of the b of the items "a/b" of that set.
C25_FeatureClosure ==
  \A i \in 1..Len(resolved) :
    /\ resolved[i].ownFeatures = {x[2] : x \in {y \in ClosureOfArgs : y[1] = ""}}
    /\ DOMAIN resolved[i].depFeatures = {x[1] : x \in {y \in ClosureOfArgs : y[1] # ""}}
    /\ \A a \in DOMAIN resolved[i].depFeatures :
         /\ Range(resolved[i].depFeatures[a]) = {x[2] : x \in {y \in ClosureOfArgs : y[1] = a}}
         /\ Len(resolved[i].depFeatures[a]) = Cardinality(Range(resolved[i].depFeatures[a]))

C25_Witness ==
  /\ resolved # <<>>
  /\ featureArgs.given.requested = <<DepFeature("libb", "avx"), Own("sse")>>
  /\ "default" \in DOMAIN featureArgs.given.f /\ featureArgs.useDefault
  /\ DepFeature("libb", "avx") \in Range(featureArgs.given.f["sse"])
  /\ resolved[1].ownFeatures = {"sse"}
  /\ resolved[1].depFeatures = "libb" :> <<"avx">>

\* ------------------------------------------------------------------- C26
\* the value of one field after the merge rule of its kind, written on the
\* values themselves
RECURSIVE Followed(_, _)
Followed(first, second) ==
  IF second = <<>> THEN first ELSE Followed(Append(first, Head(second)), Tail(second))

MergedField(f, d, s) ==
  CASE FieldKind[f] = "slice" -> Followed(d[f], s[f])
    [] FieldKind[f] = "map" ->
         [k \in DOMAIN d[f] \cup DOMAIN s[f] |->
            IF k \in DOMAIN s[f] THEN s[f][k] ELSE d[f][k]]
    [] FieldKind[f] = "bool" -> d[f] \/ s[f]
    [] OTHER -> IF s[f] # "" THEN s[f] ELSE d[f]

\* C26: mergeStructs(dst, src) on two sections of the same type leaves in each
\* field of dst: dst followed by src for a sequence (duplicates kept), dst
\* overridden and extended by the entries of src for a mapping, dst OR src for a
\* boolean, src if it is not zero and else dst for a scalar; src is as it was.
C26_MergeRules ==
  merge.calls > 0 =>
    /\ \A f \in DOMAIN merge.given.dst :
         merge.dst[f] = MergedField(f, merge.given.dst, merge.given.src)
    /\ DOMAIN merge.dst = DOMAIN merge.given.dst
    /\ merge.src = merge.given.src

\* a merge of two targets where every rule shows: a duplicate source kept, a
\* define overwritten and one added, a flag appended
C26_Witness ==
  /\ merge.calls = 1
  /\ merge.given.dst = [Lib |-> FALSE, Sources |-> <<"a.c">>, Defines |-> "A" :> "1",
                        Cflags |-> <<>>]
  /\ merge.src = [Lib |-> TRUE, Sources |-> <<"a.c", "b.c">>,
                  Defines |-> ("A" :> "2") @@ ("B" :> "1"), Cflags |-> <<"-O2">>]
  /\ merge.dst = [Lib |-> TRUE, Sources |-> <<"a.c", "a.c", "b.c">>,
                  Defines |-> ("A" :> "2") @@ ("B" :> "1"), Cflags |-> <<"-O2">>]

\* a merge of two package sections: the name is overwritten, the empty build
\* script of src leaves dst's
C26_ScalarWitness ==
  /\ merge.calls = 1
  /\ merge.given.dst = [Name |-> "app", Build |-> "make"]
  /\ merge.src = [Name |-> "lib", Build |-> ""]
  /\ merge.dst = [Name |-> "lib", Build |-> "make"]
\* ------------------------------------------------------------------- C27
\* the manifest a LoadManifest step parses and the Config it returns
StepRaw == processExpressions(rawConfigs[Len(configs')], configs'[Len(configs')].enabledFeatures).val
StepConfig == configs'[Len(configs')]

\* the sub-sections of [target] merged into base one after the other
RECURSIVE MergedInOrder(_, _, _)
MergedInOrder(base, section, order) ==
  IF order = <<>> THEN base
  ELSE MergedInOrder(mergeStructs(base, typedSub("target", section, Head(order))),
                     section, Tail(order))

\* the keys of a section that are no conditional sub-section
baseKeys(section) == DOMAIN section \ conditionalFields(section)

\* a mapping section with the keys of its base written over `before`
baseOver(section, before) ==
  [k \in DOMAIN before \cup baseKeys(section) |->
     IF k \in baseKeys(section) THEN section[k].val ELSE before[k]]

\* C27: a load merges a conditional sub-section into its base only if its key
\* evaluated to the boolean true with the features of the load: an error of the
\* load comes from a sub-section with a true key, and a load without error
\* returns [dependencies] and [profile] as their bases and [target] as its
\* base with the sub-sections of the true keys merged, so that a sub-section
\* whose key is false or no boolean changes nothing.
C27_GateInvariant ==
  [][Len(configs') > Len(configs) =>
       \A raw \in {StepRaw}, cfg \in {StepConfig} :
         /\ cfg.err # "" =>
              \/ \E name \in {"dependencies", "profile"} :
                   truthyFields(raw[name], cfg.enabledFeatures) # {}
              \/ cfg.err = "error processing expressions in config"
         /\ cfg.err = "" =>
              /\ cfg.Dependencies = baseOver(raw.dependencies, <<>>)
              /\ defaultProfiles' = baseOver(raw.profile, defaultProfiles)
              /\ \E order \in Perms(truthyFields(raw.target, cfg.enabledFeatures)) :
                   cfg.Target = MergedInOrder(typedBase("target", raw.target), raw.target, order)]_vars

\* a manifest loaded without error whose [target] has a sub-section under a
\* false key and one under a key that is no boolean, and whose [profile] has
\* one under a key that is no boolean: the sections are their bases
C27_Witness ==
  /\ Len(configs) = 1
  /\ LastConfig.err = ""
  /\ {"target_os == 'windows'", "target_arch"} = conditionalFields(LastRaw.target)
  /\ "target_arch" \in conditionalFields(LastRaw.profile)
  /\ LastConfig.Target = typedBase("target", LastRaw.target)
  /\ LastConfig.Target.Sources = <<"main.c">>
  /\ defaultProfiles["debug"] = [OptLevel |-> "g"]
\* ------------------------------------------------------------------- C28
\* the own features of the least closed set of what the last load requested
OwnClosure == {x[2] : x \in {y \in ClosureOfArgs : y[1] = ""}}

\* the names a call feature(n1, ..., nk) is given
FeatureNames(expression) ==
  CASE expression = "feature('sse')" -> {"sse"}
    [] expression = "feature('sse', 'avx')" -> {"sse", "avx"}
    [] OTHER -> {}

\* what a key evaluates to when feature(...) is true iff every name is in closure
GateHolds(key, closure) ==
  CASE key = "target_os == 'linux'" -> TRUE
    [] FeatureNames(key) # {} -> FeatureNames(key) \subseteq closure
    [] OTHER -> FALSE

\* the text a {{ feature(...) }} becomes
FeatureText(names, closure) == IF names \subseteq closure THEN "true" ELSE "false"

\* C28: a load that succeeds has evaluated the strings and the gates of the
\* manifest with the closure ResolveFeatures returns for the requested
\* features and the flag: the Config carries that closure, a {{ feature(...) }}
\* of a compiler flag reads true iff every name is in the closure, and
\* [target] is its base with the sub-sections merged whose key holds when
\* feature(...) is read that way.
C28_FeatureEnvironment ==
  (configs # <<>> /\ LastConfig.err = "") =>
    /\ LastConfig.enabledFeatures = OwnClosure
    /\ Head(LastConfig.Target.Cflags) = "-DSSE=" \o FeatureText({"sse"}, OwnClosure)
    /\ Range(LastConfig.Target.Cflags) \subseteq
         {"-DSSE=" \o FeatureText({"sse"}, OwnClosure),
          "-DSIMD=" \o FeatureText({"sse", "avx"}, OwnClosure)}
    /\ \A raw \in {LastRaw} :
         \E order \in Perms({key \in conditionalFields(raw.target) : GateHolds(key, OwnClosure)}) :
           LastConfig.Target = MergedInOrder(typedBase("target", raw.target), raw.target, order)

\* a manifest loaded with no requested feature and the default features, which
\* bring sse and through it avx: the sub-section under feature('sse') is
\* merged and both flags read true
C28_Witness ==
  /\ Len(configs) = 1
  /\ LastConfig.err = ""
  /\ featureArgs.requested = <<>> /\ featureArgs.useDefault
  /\ LastConfig.enabledFeatures = {"sse", "avx"}
  /\ conditionalFields(rawConfigs[1].target) = {"feature('sse')"}
  /\ LastConfig.Target.Cflags = <<"-DSSE=true", "-DSIMD=true">>
  /\ LastConfig.Target.Sources = <<"main.c", "linux.c">>

\* a manifest loaded with avx requested and without the default features: sse
\* is not in the closure, the sub-section under feature('sse') is left out
C28_WitnessNotEnabled ==
  /\ Len(configs) = 1
  /\ LastConfig.err = ""
  /\ featureArgs.requested = <<Own("avx")>> /\ ~featureArgs.useDefault
  /\ "default" \in DOMAIN featureArgs.f
  /\ conditionalFields(rawConfigs[1].target) = {"feature('sse')"}
  /\ LastConfig.Target.Cflags = <<"-DSSE=false">>
  /\ LastConfig.Target.Sources = <<"main.c">>
\* =========================================================================
\* Properties of the first pass (SpecPass1)
\* =========================================================================
\* the spec that came first for name in the order the range loops went
RECURSIVE FirstSeen(_, _)
FirstSeen(seen, name) ==
  IF Head(seen)[1] = name THEN Head(seen)[2] ELSE FirstSeen(Tail(seen), name)

\* what the first pass has done when it is over or has failed
Pass1Safe ==
  /\ \A name \in DepKeys :
       /\ build.hist.fetched[name] <= 1
       /\ build.hist.loaded[name] <= 1
       /\ build.hist.fetched[name] = 1 => build.hist.found[name] \notin {"empty", "package"}
  /\ DOMAIN build.depSpecs = {build.hist.seen[i][1] : i \in 1..Len(build.hist.seen)}
  /\ \A name \in DOMAIN build.depSpecs :
       build.depSpecs[name] = FirstSeen(build.hist.seen, name)
  /\ build.phase = "targets" =>
       \A name \in DOMAIN build.depSpecs \ {RootName} :
         /\ name \in DOMAIN build.packages
         /\ build.hist.loaded[name] = 1
         /\ build.hist.fetched[name] = 1 <=> build.hist.found[name] = "absent"

\* C29: on every dependency graph, cyclic or not, the first pass comes to an
\* end; each name is fetched at most once and loaded at most once, the fetcher
\* runs for a name only if build/_deps/<name> was no directory, and the spec
\* kept for a name is the first one the loops came across.
C29_Pass1VisitsOnce == [](Pass1Safe) /\ <>(build.phase \in {"targets", "failed"})

\* the first pass is over on the cycle liba -> libb -> liba -> ..., where the
\* root and liba name different sources for libb and build/_deps/liba was
\* there: libb is fetched once, from the source the root names
C29_Witness ==
  /\ build.phase = "targets"
  /\ build.remote["app"].Dependencies = {"liba", "libb"}
  /\ build.remote["liba"].Dependencies = {"app", "libb"}
  /\ build.remote["libb"].Dependencies = {"liba"}
  /\ build.declared["app"]["libb"] = GitSource("libb")
  /\ build.declared["liba"]["libb"] = PathSource("libb")
  /\ build.depSpecs["libb"] = GitSource("libb")
  /\ build.hist.found = [k \in DepKeys |-> IF k = "liba" THEN "package" ELSE "absent"]
  /\ build.hist.fetched = [k \in DepKeys |-> IF k = "liba" THEN 0 ELSE 1]
  /\ build.hist.loaded = [k \in DepKeys |-> 1]
\* =========================================================================
\* The fixpoint of the second pass (SpecGraph)
\* =========================================================================
\* the items, own and "dep/feature", that the load of q recorded in
\* graph.loads enables: the least closed set of its features and defaults
ClosureOfLoad(q) ==
  LeastClosed(manifest[q].features,
    {Own(f) : f \in graph.loads[q].features}
      \cup (IF graph.loads[q].useDefault /\ "default" \in DOMAIN manifest[q].features
              THEN Range(manifest[q].features["default"]) ELSE {}))

\* what the parent q asks of P: the features of its dependency entry and the
\* f of the items "P/f" of its closure
AskedBy(q, P) ==
  Range(manifest[q].dependencies[P].Features)
    \cup {x[2] : x \in {y \in ClosureOfLoad(q) : y[1] = P}}

\* C30: when resolveBuildGraph returns the packages, every package but the
\* root was last loaded with the union, over the packages that have it among
\* their dependencies, of the features of their dependency entry for it and
\* of the "P/feature" items their own features resolve to.
C30_FixpointPostcondition ==
  graph.phase = "resolved" =>
    \A P \in DOMAIN graph.packages \ {RootName} :
      graph.loads[P].features =
        UNION {AskedBy(q, P) : q \in {r \in DOMAIN graph.packages :
                                        P \in DOMAIN manifest[r].dependencies}}

\* the packages are returned after libb was loaded again with avx, which no
\* dependency entry names: liba asks for it through its feature sse, which
\* liba got from the root's entry in an earlier reload
C30_Witness ==
  /\ graph.phase = "resolved"
  /\ {"liba", "libb"} \subseteq DOMAIN graph.packages
  /\ graph.loads["liba"].features = {"sse"}
  /\ graph.loads["libb"].features = {"avx"}
  /\ "libb" \in DOMAIN manifest["liba"].dependencies
  /\ \A q \in DOMAIN graph.packages :
       "libb" \in DOMAIN manifest[q].dependencies =>
         manifest[q].dependencies["libb"].Features = <<>>

\* -------------------------------------------------------------------------
\* C31: the link flags of every registered target are the -l flags of its own
\* link libraries first, then those of its dependencies in depth-first order
\* (each dependency visited once), and no flag occurs twice (the first
\* occurrence is kept)
RECURSIVE KeepFirst(_, _)
KeepFirst(flags, out) ==
  IF flags = <<>> THEN out
  ELSE KeepFirst(Tail(flags), IF Head(flags) \in Range(out) THEN out ELSE Append(out, Head(flags)))

OwnLinkFlags(t) == SeqMap(LAMBDA l : <<"-l", l>>, LinksOf[t])

C31_LinkFlags ==
  \A t \in DOMAIN targets :
    \E linkOrd \in Perms(pkgDeps[t]), childOrd \in OrdersOver(pkgDeps) :
      targets[t].ldflags =
        KeepFirst(OwnLinkFlags(t) \o collectLinksAll(linkOrd, {}, <<>>, childOrd).ldflags, <<>>)

\* -------------------------------------------------------------------------
\* C32: for every acyclic target graph topologicalSortTargets returns a
\* permutation of all targets, every target after all of its dependencies,
\* and the target emitted at each step is the smallest name among the targets
\* ready at that step
EmittedBefore(order, i) == {order[j] : j \in 1..(i - 1)}

ReadyAt(order, i) ==
  {t \in Targets \ EmittedBefore(order, i) : pkgDeps[t] \subseteq EmittedBefore(order, i)}

C32_LexicographicTopologicalOrder ==
  (pc = "sorted" /\ result.kind = "none") =>
    /\ Len(result.nodes) = Cardinality(Targets)
    /\ Range(result.nodes) = Targets
    /\ \A i \in 1..Len(result.nodes) :
         /\ result.nodes[i] \in ReadyAt(result.nodes, i)
         /\ \A t \in ReadyAt(result.nodes, i) : Rank(result.nodes[i]) <= Rank(t)

\* -------------------------------------------------------------------------
\* C33: with the packages and the profile unchanged (no edit since the first
\* build), the compile flags and the link flags Build registers for each
\* target in a later run are the sequences it registered in the run before
C33_DeterministicFlags ==
  [][(hist.edits = 0 /\ targets # <<>> /\ targets' # targets) =>
       \A t \in DOMAIN targets :
         /\ targets'[t].cflags = targets[t].cflags
         /\ targets'[t].ldflags = targets[t].ldflags]_vars

\* -------------------------------------------------------------------------
\* C34: no two compile jobs of one plan have the same object path, whatever
\* the source patterns of the targets are, so no two compile jobs write the
\* same object file
C34_DistinctObjectPaths ==
  \A i, j \in 1..Len(compileJobs) :
    i # j => compileJobs[i].obj # compileJobs[j].obj

\* -------------------------------------------------------------------------
\* C35: planning never hashes (and caches) the artifact of a target that gets
\* a link job in the same invocation, and after a successful build every
\* dependency hash in the record of a linked target is the hash of that
\* dependency's artifact as the link phase left it
C35_HashCacheFresh ==
  /\ pc \in {"compile", "link"} =>
       \A i \in 1..Len(linkJobs) : OutPath(linkJobs[i].name) \notin DOMAIN hashCache
  /\ (pc = "idle" /\ result.kind = "ok") =>
       \A i \in 1..Len(linkJobs) :
         /\ linkJobs[i].name \in DOMAIN stateFile
         /\ \A d \in DOMAIN stateFile[linkJobs[i].name].Dependencies :
              stateFile[linkJobs[i].name].Dependencies[d] = Sha256(artifact[d])

\* a second build relinked liba and then app, whose record holds liba's hash
C35_Witness ==
  /\ pc = "idle" /\ result.kind = "ok" /\ hist.builds = 2 /\ hist.base.valid
  /\ \E i, j \in 1..Len(linkJobs) : linkJobs[i].name = "liba" /\ linkJobs[j].name = "app"
  /\ "liba" \in DOMAIN stateFile["app"].Dependencies
  /\ hist.base.changed # {}

\* -------------------------------------------------------------------------
\* C36: when a build follows a successful one and a source was taken off a
\* target's list in between, nothing else having changed (source contents,
\* flags, artifacts), the new plan holds a link job for that target
SourcesOfUnit(u) == {u.sources[k].src : k \in 1..Len(u.sources)}

C36_SourceRemovalRelinks ==
  [][(/\ pc = "idle" /\ hist'.builds = hist.builds + 1
      /\ hist.lastOk /\ targets # <<>>
      /\ srcContent = hist.okSrc
      /\ \A t \in Targets : /\ targets'[t].cflags = targets[t].cflags
                             /\ targets'[t].ldflags = targets[t].ldflags
                             /\ artifact[t] # NoFile) =>
       \A t \in Targets :
         (SourcesOfUnit(targets'[t]) # SourcesOfUnit(targets[t])
            /\ SourcesOfUnit(targets'[t]) \subseteq SourcesOfUnit(targets[t])) =>
           \E i \in 1..Len(linkJobs') : linkJobs'[i].name = t]_vars

\* -------------------------------------------------------------------------
\* C37: when pass 1 of a later invocation comes to a dependency whose fetch
\* failed in an earlier invocation, it invokes the fetcher for it again
C37_FailedFetchRetried ==
  [][(/\ build.phase = "pass1" /\ build.queue # <<>>
      /\ Head(build.queue) \notin DOMAIN build.packages
      /\ Head(build.queue) \in build.hist.failed
      /\ build' # build) =>
       build'.hist.fetched[Head(build.queue)] = build.hist.fetched[Head(build.queue)] + 1]_vars

\* -------------------------------------------------------------------------
\* C38: when Invoke returns an error (cycle, compile failure, link failure)
\* the state file holds what it held when Invoke was called, and the records
\* in memory are the ones loaded from it: no record was rewritten
FailureKinds == {"cycle", "compilation failed", "linking failed"}

C38_FailedBuildKeepsState ==
  [][(/\ pc' = "idle" /\ (pc # "idle" \/ hist'.builds # hist.builds)
      /\ result'.kind \in FailureKinds) =>
       /\ stateFile' = hist'.stateBefore
       /\ stateFile' = stateFile
       /\ buildState' = loadBuildState(stateFile').buildState]_vars

\* a second build failed in the compile phase and the state file the first
\* build saved is still there
C38_Witness ==
  /\ pc = "idle" /\ result.kind = "compilation failed" /\ hist.builds = 2
  /\ stateFile # <<>> /\ stateFile = hist.stateBefore
  /\ buildState = loadBuildState(stateFile).buildState

\* -------------------------------------------------------------------------
\* C39: every permutation of the requested feature list gives the own-feature
\* set the call returned and, for each dependency, the same set of features
\* requested from it
Reordered(list) == {[i \in 1..Len(list) |-> list[p[i]]] : p \in Perms(1..Len(list))}

SameFeatureSets(r1, r2) ==
  /\ r1.ownFeatures = r2.ownFeatures
  /\ DOMAIN r1.depFeatures = DOMAIN r2.depFeatures
  /\ \A d \in DOMAIN r1.depFeatures : Range(r1.depFeatures[d]) = Range(r2.depFeatures[d])

C39_RequestOrderIrrelevant ==
  resolved # <<>> =>
    \A list \in Reordered(featureArgs.given.requested) :
      SameFeatureSets(ResolveFeatures(featureArgs.given.f, list, featureArgs.useDefault),
                      resolved[1])

\* three different entries were requested, one of them for a dependency, the
\* default feature enabled others, and the call returned
C39_Witness ==
  /\ resolved # <<>>
  /\ Cardinality(Range(featureArgs.given.requested)) = 3
  /\ Cardinality(Reordered(featureArgs.given.requested)) = 6
  /\ DOMAIN resolved[1].depFeatures # {}
  /\ Cardinality(resolved[1].ownFeatures) > 2

====
